---------------------------- MODULE Spec2Model ----------------------------
(***************************************************************************)
(* A model of panforge's target-resolution and concurrent-execution        *)
(* pipeline: app.Process (one goroutine per target under an errgroup, a    *)
(* weighted semaphore and a prompt mutex) together with the pure helpers   *)
(* it calls (DetermineTargets, isOverwriteAllowed, askForConfirmation,     *)
(* NormalizeFormat, GetArgs).                                              *)
(*                                                                         *)
(* Two specifications:                                                     *)
(*   Spec    one run of Process, every interleaving of its goroutines;     *)
(*   SpecFn  the pure helpers applied to inputs drawn from bounded sets.   *)
(***************************************************************************)
EXTENDS Integers, Sequences, FiniteSets, TLC

(***************************************************************************)
(* Bounds of the model.                                                    *)
(***************************************************************************)
\* longest CLI target list (-t may be repeated)
MaxTargets == 2
\* largest value given to --concurrency
MaxConcurrency == 2
\* runtime.NumCPU() of the host
NumCPU == 2
\* longest pass-through argument list
MaxPostArgs == 1
\* longest text typed at a confirmation prompt
MaxAnswerLen == 3
\* keys in an option bag handed to GetArgs
MaxKeys == 2
\* characters in a title handed to GenerateOutputFilename
MaxTitleLen == 2
\* file system events in one call of Watch
MaxEvents == 3
\* ticks of the clock in debounceDuration
DebounceTicks == 2
\* errors the watcher reports in one call of Watch
MaxWatchErrors == 1

(***************************************************************************)
(* Dynamic values (Go's interface{}): a tagged variant.                    *)
(***************************************************************************)
NilV ==
  [t |-> "nil", b |-> FALSE, n |-> 0, s |-> "", l |-> <<>>, m |-> <<>>]

BoolV(x) ==
  [t |-> "bool", b |-> x, n |-> 0, s |-> "", l |-> <<>>, m |-> <<>>]

\* an int, as yaml.v3 decodes a number without fraction
IntV(x) ==
  [t |-> "int", b |-> FALSE, n |-> x, s |-> "", l |-> <<>>, m |-> <<>>]

StrV(x) ==
  [t |-> "string", b |-> FALSE, n |-> 0, s |-> x, l |-> <<>>, m |-> <<>>]

ListV(x) ==
  [t |-> "list", b |-> FALSE, n |-> 0, s |-> "", l |-> x, m |-> <<>>]

\* a map[string]interface{}: a function from its keys to values
MapV(x) ==
  [t |-> "map", b |-> FALSE, n |-> 0, s |-> "", l |-> <<>>, m |-> x]

EmptyMap == [k \in {} |-> NilV]

Has(m, k) == k \in DOMAIN m

\* delete(m, k)
Delete(m, k) == [x \in (DOMAIN m) \ {k} |-> m[x]]

(***************************************************************************)
(* Text is a sequence of one-character strings wherever the code looks at  *)
(* characters.                                                             *)
(***************************************************************************)
NL == "\n"

SpaceChars == {" ", NL, "\t", "\r"}

\* the upper-case and the lower-case letters, in the same order
UpperLetters ==
  <<"A", "B", "C", "D", "E", "F", "G", "H", "I", "J", "K", "L", "M", "N",
    "O", "P", "Q", "R", "S", "T", "U", "V", "W", "X", "Y", "Z">>

LowerLetters ==
  <<"a", "b", "c", "d", "e", "f", "g", "h", "i", "j", "k", "l", "m", "n",
    "o", "p", "q", "r", "s", "t", "u", "v", "w", "x", "y", "z">>

Digits == <<"0", "1", "2", "3", "4", "5", "6", "7", "8", "9">>

\* strings.ToLower, one character
LowerChar(c) ==
  IF \E i \in 1..Len(UpperLetters) : UpperLetters[i] = c
    THEN LowerLetters[CHOOSE i \in 1..Len(UpperLetters) : UpperLetters[i] = c]
    ELSE c

ToLower(s) == [i \in 1..Len(s) |-> LowerChar(s[i])]

RECURSIVE TrimLeft(_)
TrimLeft(s) ==
  IF s # <<>> /\ Head(s) \in SpaceChars THEN TrimLeft(Tail(s)) ELSE s

RECURSIVE TrimRight(_)
TrimRight(s) ==
  IF s # <<>> /\ s[Len(s)] \in SpaceChars
    THEN TrimRight(SubSeq(s, 1, Len(s) - 1))
    ELSE s

\* strings.TrimSpace
TrimSpace(s) == TrimRight(TrimLeft(s))

\* the characters of the model in the order of their bytes, which is how
\* Go compares strings
ByteOrder ==
  <<"\t", "\n", "\r", " ", "!", "\"", "#", "*", "+", "-", ".", "/", "0",
    "1", "2", "3", "4", "5", "6", "7", "8", "9", ":", "<", "=", ">", "?",
    "A", "B", "C", "D", "E", "F", "G", "H", "I", "J", "K", "L", "M", "N",
    "O", "P", "Q", "R", "S", "T", "U", "V", "W", "X", "Y", "Z", "\\", "_",
    "a", "b", "c", "d", "e", "f", "g", "h", "i", "j", "k", "l", "m", "n",
    "o", "p", "q", "r", "s", "t", "u", "v", "w", "x", "y", "z", "{", "|",
    "}">>

ByteRank(c) == CHOOSE i \in 1..Len(ByteOrder) : ByteOrder[i] = c

\* a < b for Go strings a and b given by their characters
LessText(a, b) ==
  \E i \in 1..Len(b) :
    /\ i <= Len(a) + 1
    /\ \A k \in 1..(i - 1) : a[k] = b[k]
    /\ (i = Len(a) + 1 \/ ByteRank(a[i]) < ByteRank(b[i]))

\* the characters of each string that the model holds as a whole (a map
\* key, a target, a literal of the code)
CharTable ==
  ("" :> <<>>)
  @@ ("to" :> <<"t", "o">>)
  @@ ("t" :> <<"t">>)
  @@ ("output" :> <<"o", "u", "t", "p", "u", "t">>)
  @@ ("from" :> <<"f", "r", "o", "m">>)
  @@ ("force" :> <<"f", "o", "r", "c", "e">>)
  @@ ("dry-run" :> <<"d", "r", "y", "-", "r", "u", "n">>)
  @@ ("dry_run" :> <<"d", "r", "y", "_", "r", "u", "n">>)
  @@ ("verbose" :> <<"v", "e", "r", "b", "o", "s", "e">>)
  @@ ("quiet" :> <<"q", "u", "i", "e", "t">>)
  @@ ("log" :> <<"l", "o", "g">>)
  @@ ("all" :> <<"a", "l", "l">>)
  @@ ("watch" :> <<"w", "a", "t", "c", "h">>)
  @@ ("concurrency" :> <<"c", "o", "n", "c", "u", "r", "r", "e", "n", "c", "y">>)
  @@ ("help" :> <<"h", "e", "l", "p">>)
  @@ ("o" :> <<"o">>)
  @@ ("f" :> <<"f">>)
  @@ ("n" :> <<"n">>)
  @@ ("v" :> <<"v">>)
  @@ ("q" :> <<"q">>)
  @@ ("l" :> <<"l">>)
  @@ ("a" :> <<"a">>)
  @@ ("w" :> <<"w">>)
  @@ ("c" :> <<"c">>)
  @@ ("h" :> <<"h">>)
  @@ ("b" :> <<"b">>)
  @@ ("x" :> <<"x">>)
  @@ ("toc" :> <<"t", "o", "c">>)
  @@ ("toc_depth" :> <<"t", "o", "c", "_", "d", "e", "p", "t", "h">>)
  @@ ("variable" :> <<"v", "a", "r", "i", "a", "b", "l", "e">>)
  @@ ("pandoc_args" :> <<"p", "a", "n", "d", "o", "c", "_", "a", "r", "g", "s">>)
  @@ ("pandoc-args" :> <<"p", "a", "n", "d", "o", "c", "-", "a", "r", "g", "s">>)
  @@ ("overwrite" :> <<"o", "v", "e", "r", "w", "r", "i", "t", "e">>)
  @@ ("slugify-filename" :> <<"s", "l", "u", "g", "i", "f", "y", "-", "f", "i", "l", "e", "n", "a", "m", "e">>)
  @@ ("--toc" :> <<"-", "-", "t", "o", "c">>)
  @@ ("--force" :> <<"-", "-", "f", "o", "r", "c", "e">>)
  @@ ("a=1" :> <<"a", "=", "1">>)
  @@ ("b=2" :> <<"b", "=", "2">>)
  @@ ("html" :> <<"h", "t", "m", "l">>)
  @@ ("html5" :> <<"h", "t", "m", "l", "5">>)
  @@ ("pdf" :> <<"p", "d", "f">>)
  @@ ("docx" :> <<"d", "o", "c", "x">>)
  @@ ("epub" :> <<"e", "p", "u", "b">>)
  @@ ("epub3" :> <<"e", "p", "u", "b", "3">>)
  @@ ("markdown" :> <<"m", "a", "r", "k", "d", "o", "w", "n">>)
  @@ ("md" :> <<"m", "d">>)
  @@ ("latex" :> <<"l", "a", "t", "e", "x">>)
  @@ ("tex" :> <<"t", "e", "x">>)
  @@ ("beamer" :> <<"b", "e", "a", "m", "e", "r">>)
  @@ ("HTML" :> <<"H", "T", "M", "L">>)
  @@ ("markdown+smart" :> <<"m", "a", "r", "k", "d", "o", "w", "n", "+", "s", "m", "a", "r", "t">>)
  @@ ("markdown-smart" :> <<"m", "a", "r", "k", "d", "o", "w", "n", "-", "s", "m", "a", "r", "t">>)
  @@ ("+smart" :> <<"+", "s", "m", "a", "r", "t">>)
  @@ ("out/a.html" :> <<"o", "u", "t", "/", "a", ".", "h", "t", "m", "l">>)
  @@ ("true" :> <<"t", "r", "u", "e">>)
  @@ ("false" :> <<"f", "a", "l", "s", "e">>)
  @@ ("yes" :> <<"y", "e", "s">>)
  @@ ("<nil>" :> <<"<", "n", "i", "l", ">">>)
  @@ ("{date}" :> <<"{", "d", "a", "t", "e", "}">>)
  @@ ("{time}" :> <<"{", "t", "i", "m", "e", "}">>)
  @@ ("{title}" :> <<"{", "t", "i", "t", "l", "e", "}">>)
  @@ ("{author}" :> <<"{", "a", "u", "t", "h", "o", "r", "}">>)
  @@ ("{title-slug}" :> <<"{", "t", "i", "t", "l", "e", "-", "s", "l", "u", "g", "}">>)
  @@ ("{author-slug}" :> <<"{", "a", "u", "t", "h", "o", "r", "-", "s", "l", "u", "g", "}">>)
  @@ ("{ext}" :> <<"{", "e", "x", "t", "}">>)
  @@ ("{title}_{date}.{ext}" :> <<"{", "t", "i", "t", "l", "e", "}", "_", "{", "d", "a", "t", "e", "}", ".", "{", "e", "x", "t", "}">>)
  @@ ("2026-11-04" :> <<"2", "0", "2", "6", "-", "1", "1", "-", "0", "4">>)
  @@ ("15-04-05" :> <<"1", "5", "-", "0", "4", "-", "0", "5">>)

Chars(s) == CharTable[s]

RECURSIVE SortStrings(_)
\* sort.Strings on the strings of the set keys: ascending, as a sequence
SortStrings(keys) ==
  IF keys = {}
    THEN <<>>
    ELSE LET least == CHOOSE x \in keys :
                        \A y \in keys \ {x} : LessText(Chars(x), Chars(y))
         IN <<least>> \o SortStrings(keys \ {least})

\* bufio.Reader.ReadString('\n') on an input that ends after `input`:
\* the text up to and including the first newline, or an error (EOF)
\* when there is none.
ReadString(input) ==
  IF \E i \in 1..Len(input) : input[i] = NL
    THEN LET i == CHOOSE i \in 1..Len(input) :
                    /\ input[i] = NL
                    /\ \A k \in 1..(i - 1) : input[k] # NL
         IN [line |-> SubSeq(input, 1, i), err |-> FALSE]
    ELSE [line |-> input, err |-> TRUE]

\* the mutant of askForConfirmation: the read error is ignored
AskIgnoringReadError(input) ==
  LET response == ToLower(TrimSpace(ReadString(input).line))
  IN response = <<"y">> \/ response = <<"y", "e", "s">>

\* app.askForConfirmation(filename, r, w): the boolean it returns when the
\* reader holds `input`.
askForConfirmation(input) ==
  LET rd == ReadString(input)
  IN IF rd.err
       THEN FALSE
       ELSE LET response == ToLower(TrimSpace(rd.line))
            IN response = <<"y">> \/ response = <<"y", "e", "s">>

(***************************************************************************)
(* Configuration (config.Config) and options (options.Options).            *)
(***************************************************************************)
\* the zero Config: &config.Config{}
EmptyConfig ==
  [Title |-> <<>>,
   Author |-> <<>>,
   Outputs |-> <<>>,
   OutputMap |-> EmptyMap,
   FilenameTemplate |-> <<>>,
   SlugifyFilename |-> NilV,
   Generic |-> EmptyMap]

\* the mutant of Fill: a key of both maps takes the value of `lo`
FillOverwrites(hi, lo) ==
  [k \in (DOMAIN hi) \cup (DOMAIN lo) |->
     IF k \in DOMAIN lo THEN lo[k] ELSE hi[k]]

\* lines 164-181: the keys of the map `hi` keep their values, the other
\* keys of the map `lo` are added (a nil map counts as an empty one)
Fill(hi, lo) ==
  [k \in (DOMAIN hi) \cup (DOMAIN lo) |->
     IF k \in DOMAIN hi THEN hi[k] ELSE lo[k]]

\* lines 153-182: cfg after the default configuration d was merged into it
Merge(c, d) ==
  [c EXCEPT
     !.Title = IF c.Title = <<>> THEN d.Title ELSE c.Title,
     !.FilenameTemplate =
        IF c.FilenameTemplate = <<>>
          THEN d.FilenameTemplate ELSE c.FilenameTemplate,
     !.SlugifyFilename =
        IF c.SlugifyFilename = NilV
          THEN d.SlugifyFilename ELSE c.SlugifyFilename,
     !.OutputMap = Fill(c.OutputMap, d.OutputMap),
     !.Generic = Fill(c.Generic, d.Generic)]

RECURSIVE StringsOf(_)
\* the string elements of a list of dynamic values, in order
StringsOf(l) ==
  IF l = <<>>
    THEN <<>>
    ELSE (IF Head(l).t = "string" THEN <<Head(l).s>> ELSE <<>>)
           \o StringsOf(Tail(l))

\* the mutant of DetermineTargets: the keys of the `output:` map come before
\* the `outputs:` list
DetermineTargetsMapFirst(o, c) ==
  IF Len(o.Targets) > 0 THEN o.Targets
  ELSE IF DOMAIN c.OutputMap # {} THEN SortStrings(DOMAIN c.OutputMap)
  ELSE IF Len(c.Outputs) > 0 THEN StringsOf(c.Outputs)
  ELSE <<"html">>

\* app.DetermineTargets(opts, cfg)
DetermineTargets(o, c) ==
  IF Len(o.Targets) > 0 THEN o.Targets
  ELSE IF Len(c.Outputs) > 0 THEN StringsOf(c.Outputs)
  ELSE IF DOMAIN c.OutputMap # {} THEN SortStrings(DOMAIN c.OutputMap)
  ELSE <<"html">>

\* the mutant of isOverwriteAllowed: an explicit per-target false vetoes
IsOverwriteAllowedVeto(c, metaOut) ==
  IF Has(metaOut, "overwrite") /\ metaOut["overwrite"].t = "bool"
    THEN metaOut["overwrite"].b
    ELSE /\ Has(c.Generic, "overwrite")
         /\ c.Generic["overwrite"].t = "bool"
         /\ c.Generic["overwrite"].b

\* app.isOverwriteAllowed(cfg, metaOut)
isOverwriteAllowed(c, metaOut) ==
  IF /\ Has(metaOut, "overwrite")
     /\ metaOut["overwrite"].t = "bool"
     /\ metaOut["overwrite"].b
    THEN TRUE
  ELSE IF /\ Has(c.Generic, "overwrite")
          /\ c.Generic["overwrite"].t = "bool"
          /\ c.Generic["overwrite"].b
    THEN TRUE
  ELSE FALSE

(***************************************************************************)
(* Inputs of a run.                                                        *)
(***************************************************************************)
TargetNames == {"html", "pdf"}

RECURSIVE SeqsUpTo(_, _)
\* the sequences over S of length at most n
SeqsUpTo(S, n) ==
  IF n = 0
    THEN {<<>>}
    ELSE LET shorter == SeqsUpTo(S, n - 1)
         IN shorter \cup {Append(q, x) : q \in shorter, x \in S}

\* what follows the input file on the command line (parseArgs)
PostArgTokens == {"-t", "docx"}

\* a document whose header names nothing
CfgPlain == EmptyConfig

\* a document with a detailed `output:` map
CfgDetailed ==
  [EmptyConfig EXCEPT
     !.OutputMap =
        ("html" :> MapV(("overwrite" :> BoolV(TRUE))
                        @@ ("pandoc_args" :> ListV(<<StrV("--toc")>>))))
        @@ ("pdf" :> MapV("overwrite" :> BoolV(FALSE)))]

\* a document with an `outputs:` list and top-level (inline) keys
CfgGeneric ==
  [EmptyConfig EXCEPT
     !.Outputs = <<StrV("html"), StrV("pdf")>>,
     !.Generic =
        ("overwrite" :> BoolV(TRUE))
        @@ ("pdf" :> MapV("pandoc_args" :> ListV(<<StrV("--toc")>>)))]

Configs == {CfgPlain, CfgDetailed, CfgGeneric}

\* a default configuration (~/.panforge/default.yaml) with an `output:` map
CfgDefault ==
  [EmptyConfig EXCEPT
     !.OutputMap = ("pdf" :> MapV("overwrite" :> BoolV(TRUE)))]

\* what config.LoadDefaultConfig("default") returns: the zero Config when
\* there is no such file (a file that does not parse gives nil, and cfg
\* stays as it is, as with the zero Config)
DefaultConfigs == {EmptyConfig, CfgDefault}

\* characters that may be read from the terminal at a prompt
AnswerChars == {"y", "Y", "n", NL, " "}

\* SpecFn: every text of at most MaxAnswerLen characters
AnswerTexts == SeqsUpTo(AnswerChars, MaxAnswerLen)

\* Spec: what the user types at a prompt of a run (the last two end without
\* a newline: the input was closed)
Answers ==
  {<<"y", NL>>, <<"Y", "E", "S", NL>>, <<" ", "y", " ", NL>>,
   <<"n", NL>>, <<NL>>, <<"y", "e", NL>>, <<"y">>, <<>>}

(***************************************************************************)
(* Errors: the nil error, or an error of some kind raised by some job.     *)
(***************************************************************************)
NoErr == [kind |-> "nil", job |-> 0]

\* ctx.Err() of a cancelled context
CtxErr == [kind |-> "ctx", job |-> 0]

\* fmt.Errorf("pandoc failed: %w", err) of job j
ExecErr(j) == [kind |-> "exec", job |-> j]

\* fmt.Errorf("failed to resolve output file path: %w", err) of job j
PathErr(j) == [kind |-> "path", job |-> j]

(***************************************************************************)
(* State of one run of Process.                                            *)
(***************************************************************************)
VARIABLES
  opts,       \* options.Options: Targets, Force, Watch, Concurrency
  postArgs,   \* the pass-through arguments, one slice shared by all jobs
  cfg,        \* *config.Config, shared by all jobs
  mainpc,     \* where Process is: begin, spawn, wait, returned, crashed
  ret,        \* the error Process returned
  targets,    \* DetermineTargets(opts, cfg)
  limit,      \* capacity of the semaphore
  jobs,       \* one record per g.Go closure, in target order
  semCur,     \* semaphore.Weighted.cur
  semWaiters, \* semaphore.Weighted.waiters (FIFO)
  semReady,   \* waiters whose ready channel has been closed
  promptMu,   \* holder of promptMu (0: unlocked)
  parentDone, \* the caller's context has been cancelled
  gErr,       \* errgroup.Group.err
  reported,   \* jobs that returned a non-nil error to the group, in order
  call,       \* SpecFn: the helper applied, its arguments and its result
  watch       \* SpecWatch: the state of one call of Watch

vars ==
  <<opts, postArgs, cfg, mainpc, ret, targets, limit, jobs, semCur,
    semWaiters, semReady, promptMu, parentDone, gErr, reported, call,
    watch>>

schedVars ==
  <<opts, postArgs, cfg, mainpc, ret, targets, limit, jobs, semCur,
    semWaiters, semReady, promptMu, parentDone, gErr, reported>>

\* Watch has not been called
NoWatch ==
  [pc |-> "off", err |-> "none", done |-> FALSE, queue |-> <<>>,
   arrived |-> 0, handled |-> 0, initialRuns |-> 0, failed |-> FALSE,
   logged |-> 0, timers |-> <<>>]

NoCall == [fn |-> "none", generic |-> NilV, meta |-> NilV, input |-> <<>>,
           arg |-> <<>>, done |-> FALSE, result |-> FALSE]

\* a g.Go closure before g.Go has been called for it
NewJob ==
  [pc |-> "idle",        \* idle, start, waiting, resolve, lock, prompting,
                         \* build, rewrite, storing, running, report, done
   held |-> FALSE,       \* sem.Acquire returned nil
   lateAcquire |-> FALSE, \* ctx was done when sem.Acquire returned nil
   ref |-> "own",        \* what metaOut points to: OutputMap, Generic, own
   exists |-> FALSE,     \* os.Stat found the destination
   asked |-> FALSE,      \* the confirmation question was written
   confirmed |-> FALSE,  \* askForConfirmation returned true
   idx |-> 0,            \* i of the loop over postArgs
   yaml |-> <<>>,        \* what pandoc.GetArgs(metaOut) returned
   passed |-> <<>>,      \* the pass-through arguments handed to the executor
   invoked |-> 0,        \* calls of executor.Run
   ctxAtRun |-> FALSE,   \* ctx was done when executor.Run was called
   declined |-> FALSE,   \* the answer read was not a yes
   skipped |-> FALSE,    \* returned nil without running (overwrite declined)
   err |-> NoErr]        \* what the closure returned

Jobs == 1..Len(jobs)

\* ctx of errgroup.WithContext(ctx): done when the parent is, or once the
\* group has recorded an error (errOnce calls cancel)
ctxDone == parentDone \/ gErr # NoErr

Set(j, r) == [jobs EXCEPT ![j] = r]

TypeOK ==
  /\ mainpc \in {"begin", "spawn", "wait", "returned", "crashed"}
  /\ semCur \in 0..limit
  /\ promptMu \in {0} \cup Jobs

Init ==
  /\ opts \in [Targets : SeqsUpTo(TargetNames, MaxTargets),
               Force : BOOLEAN,
               Watch : BOOLEAN,
               Concurrency : 0..MaxConcurrency]
  /\ postArgs \in SeqsUpTo(PostArgTokens, MaxPostArgs)
  /\ cfg = EmptyConfig
  /\ mainpc = "begin"
  /\ ret = NoErr
  /\ targets = <<>>
  /\ limit = 0
  /\ jobs = <<>>
  /\ semCur = 0
  /\ semWaiters = <<>>
  /\ semReady = {}
  /\ promptMu = 0
  /\ parentDone = FALSE
  /\ gErr = NoErr
  /\ reported = <<>>
  /\ call = NoCall
  /\ watch = NoWatch

(***************************************************************************)
(* golang.org/x/sync v0.19.0: semaphore.Weighted and errgroup.Group, as    *)
(* Process uses them (every Acquire and Release is of weight 1).           *)
(***************************************************************************)
RECURSIVE notifyWaiters(_)
\* semaphore.Weighted.notifyWaiters on sem = [cur, waiters, ready]: hand
\* free tokens to the waiters at the front of the queue
notifyWaiters(sem) ==
  IF sem.waiters = <<>> \/ limit - sem.cur < 1
    THEN sem
    ELSE notifyWaiters([cur |-> sem.cur + 1,
                        waiters |-> Tail(sem.waiters),
                        ready |-> sem.ready \cup {Head(sem.waiters)}])

Sem == [cur |-> semCur, waiters |-> semWaiters, ready |-> semReady]

\* semaphore.Weighted.Release(1)
Released(sem) == notifyWaiters([sem EXCEPT !.cur = sem.cur - 1])

SetSem(sem) ==
  /\ semCur' = sem.cur
  /\ semWaiters' = sem.waiters
  /\ semReady' = sem.ready

\* the mutant of CanAcquire: the fast path ignores the capacity
CanAcquireAlways(sem) == TRUE

\* the fast path of Acquire: a token is free and nobody queues
CanAcquire(sem) == limit - sem.cur >= 1 /\ sem.waiters = <<>>

\* the mutant of AcquireFails: a done context does not stop Acquire
AcquireNeverFails(done) == FALSE

\* Acquire prefers to fail when ctx is already done
AcquireFails(done) == done

\* the mutant of errOnce: the last error wins
ErrLast(cur, e) == e

\* g.errOnce.Do(func() { g.err = err; g.cancel(g.err) })
errOnce(cur, e) == IF cur = NoErr THEN e ELSE cur

RemoveWaiter(w, j) ==
  LET keep == {i \in 1..Len(w) : w[i] # j}
      pos(i) == Cardinality({k \in keep : k <= i})
  IN [n \in 1..Cardinality(keep) |->
        w[CHOOSE i \in keep : pos(i) = n]]

(***************************************************************************)
(* Process, up to g.Wait().                                                *)
(***************************************************************************)
\* lines 152-207: targets, semaphore and one closure per target
StartRun(doc) ==
  \E d \in DefaultConfigs :
  LET c == Merge(doc, d)
      ts == DetermineTargets(opts, c)
  IN /\ cfg' = c
     /\ targets' = ts
     /\ limit' = IF opts.Concurrency <= 0 THEN NumCPU ELSE opts.Concurrency
     /\ jobs' = [i \in 1..Len(ts) |-> NewJob]
     /\ mainpc' = IF Len(ts) = 0 THEN "wait" ELSE "spawn"
     /\ UNCHANGED <<opts, postArgs, ret, semCur, semWaiters, semReady,
                    promptMu, parentDone, gErr, reported, call, watch>>

\* pandoc.GetSupportedFormats found no pandoc
BeginNoPandoc ==
  /\ mainpc = "begin"
  /\ mainpc' = "returned"
  /\ ret' = [kind |-> "pandoc", job |-> 0]
  /\ UNCHANGED <<opts, postArgs, cfg, targets, limit, jobs, semCur,
                 semWaiters, semReady, promptMu, parentDone, gErr, reported,
                 call, watch>>

\* the mutant of BeginNoHeader: the run proceeds without any target named
BeginNoHeaderProceeds ==
  /\ mainpc = "begin"
  /\ StartRun(EmptyConfig)

\* config.LoadConfig failed (no YAML header)
BeginNoHeader ==
  /\ mainpc = "begin"
  /\ IF Len(opts.Targets) = 0
       THEN /\ mainpc' = "returned"
            /\ ret' = [kind |-> "config", job |-> 0]
            /\ UNCHANGED <<opts, postArgs, cfg, targets, limit, jobs, semCur,
                           semWaiters, semReady, promptMu, parentDone, gErr,
                           reported, call, watch>>
       ELSE StartRun(EmptyConfig)

\* config.LoadConfig returned the document's configuration
BeginLoaded ==
  /\ mainpc = "begin"
  /\ \E c \in Configs : StartRun(c)

\* one iteration of `for _, t := range targets { g.Go(...) }`
Spawn ==
  /\ mainpc = "spawn"
  /\ LET i == CHOOSE i \in Jobs :
                 /\ jobs[i].pc = "idle"
                 /\ \A k \in 1..(i - 1) : jobs[k].pc # "idle"
     IN /\ jobs' = Set(i, [jobs[i] EXCEPT !.pc = "start"])
        /\ mainpc' = IF i = Len(jobs) THEN "wait" ELSE "spawn"
  /\ UNCHANGED <<opts, postArgs, cfg, ret, targets, limit, semCur,
                 semWaiters, semReady, promptMu, parentDone, gErr, reported,
                 call, watch>>

\* the mutant of WaitReturns: g.Wait() returns once some closure has
WaitReturnsEarly(js) == \E j \in DOMAIN js : js[j].pc = "done"

\* g.Wait() returns when every closure has called g.done()
WaitReturns(js) == \A j \in DOMAIN js : js[j].pc = "done"

\* g.Wait(): every closure has returned
Wait ==
  /\ mainpc = "wait"
  /\ WaitReturns(jobs)
  /\ mainpc' = "returned"
  /\ ret' = gErr
  /\ UNCHANGED <<opts, postArgs, cfg, targets, limit, jobs, semCur,
                 semWaiters, semReady, promptMu, parentDone, gErr, reported,
                 call, watch>>

\* the caller cancels the context it gave to Process
CancelParent ==
  /\ mainpc \in {"spawn", "wait"}
  /\ ~parentDone
  /\ parentDone' = TRUE
  /\ UNCHANGED <<opts, postArgs, cfg, mainpc, ret, targets, limit, jobs,
                 semCur, semWaiters, semReady, promptMu, gErr, reported,
                 call, watch>>

(***************************************************************************)
(* The closure given to g.Go for target number j (lines 211-326).          *)
(***************************************************************************)
\* the process runs: no fatal error of the Go runtime has ended it
Alive == mainpc \in {"spawn", "wait"}

\* the closure returns e: its deferred sem.Release(1) runs
ReturnHolding(j, r, e) ==
  /\ jobs' = Set(j, [r EXCEPT !.pc = "report", !.err = e])
  /\ SetSem(Released(Sem))

\* sem.Acquire(ctx, 1), up to its fast path or its queueing
Acquire(j) ==
  /\ Alive
  /\ jobs[j].pc = "start"
  /\ IF AcquireFails(ctxDone)
       THEN /\ jobs' = Set(j, [jobs[j] EXCEPT !.pc = "report", !.err = CtxErr])
            /\ UNCHANGED <<semCur, semWaiters, semReady>>
       ELSE IF CanAcquire(Sem)
         THEN /\ jobs' = Set(j, [jobs[j] EXCEPT !.pc = "resolve",
                                                !.held = TRUE,
                                                !.lateAcquire = ctxDone])
              /\ semCur' = semCur + 1
              /\ UNCHANGED <<semWaiters, semReady>>
         ELSE /\ jobs' = Set(j, [jobs[j] EXCEPT !.pc = "waiting"])
              /\ semWaiters' = Append(semWaiters, j)
              /\ UNCHANGED <<semCur, semReady>>
  /\ UNCHANGED <<opts, postArgs, cfg, mainpc, ret, targets, limit, promptMu,
                 parentDone, gErr, reported, call, watch>>

\* sem.Acquire(ctx, 1), woken because a Release closed its ready channel
AcquireReady(j) ==
  /\ Alive
  /\ jobs[j].pc = "waiting"
  /\ j \in semReady
  /\ IF AcquireFails(ctxDone)
       THEN /\ jobs' = Set(j, [jobs[j] EXCEPT !.pc = "report", !.err = CtxErr])
            /\ SetSem(Released([Sem EXCEPT !.ready = semReady \ {j}]))
       ELSE /\ jobs' = Set(j, [jobs[j] EXCEPT !.pc = "resolve",
                                              !.held = TRUE,
                                              !.lateAcquire = ctxDone])
            /\ semReady' = semReady \ {j}
            /\ UNCHANGED <<semCur, semWaiters>>
  /\ UNCHANGED <<opts, postArgs, cfg, mainpc, ret, targets, limit, promptMu,
                 parentDone, gErr, reported, call, watch>>

\* sem.Acquire(ctx, 1), woken by ctx.Done() while still queued
AcquireCancelled(j) ==
  /\ Alive
  /\ jobs[j].pc = "waiting"
  /\ j \notin semReady
  /\ ctxDone
  /\ LET isFront == Head(semWaiters) = j
         left == [Sem EXCEPT !.waiters = RemoveWaiter(semWaiters, j)]
     IN SetSem(IF isFront /\ limit > semCur THEN notifyWaiters(left) ELSE left)
  /\ jobs' = Set(j, [jobs[j] EXCEPT !.pc = "report", !.err = CtxErr])
  /\ UNCHANGED <<opts, postArgs, cfg, mainpc, ret, targets, limit, promptMu,
                 parentDone, gErr, reported, call, watch>>

\* the r of strings.FieldsFunc in NormalizeFormat: r == '+' || r == '-'
FormatSeparators == {"+", "-"}

RECURSIVE SkipSeparators(_)
SkipSeparators(s) ==
  IF s # <<>> /\ Head(s) \in FormatSeparators
    THEN SkipSeparators(Tail(s))
    ELSE s

RECURSIVE FirstField(_)
FirstField(s) ==
  IF s = <<>> \/ Head(s) \in FormatSeparators
    THEN <<>>
    ELSE <<Head(s)>> \o FirstField(Tail(s))

\* pandoc.NormalizeFormat(spec): parts[0] of the fields between '+' and
\* '-', or "" when there is no field
NormalizeFormat(spec) == FirstField(SkipSeparators(spec))

\* the mutant of FormatOf: the `to` of the entry is not looked at
FormatOfTarget(c, t) == NormalizeFormat(Chars(t))

\* lines 218-228: fmtStr, the characters of the format identifier
FormatOf(c, t) ==
  IF /\ Has(c.OutputMap, t)
     /\ c.OutputMap[t].t = "map"
     /\ Has(c.OutputMap[t].m, "to")
     /\ c.OutputMap[t].m["to"].t = "string"
     /\ c.OutputMap[t].m["to"].s # ""
    THEN Chars(c.OutputMap[t].m["to"].s)
    ELSE NormalizeFormat(Chars(t))

\* which map metaOut is for target t (lines 220-239)
MetaRef(c, t) ==
  IF Has(c.OutputMap, t)
    THEN (IF c.OutputMap[t].t = "map" THEN "OutputMap" ELSE "own")
  ELSE IF Has(c.Generic, t)
    THEN (IF c.Generic[t].t = "map" THEN "Generic" ELSE "own")
  ELSE "own"

\* the map metaOut points to
MetaOut(c, t, ref) ==
  CASE ref = "OutputMap" -> c.OutputMap[t].m
    [] ref = "Generic" -> c.Generic[t].m
    [] OTHER -> EmptyMap

\* the mutant of NeedsPrompt: --watch does not bypass the confirmation
NeedsPromptDespiteWatch(o, c, metaOut, exists) ==
  exists /\ ~o.Force /\ ~isOverwriteAllowed(c, metaOut)

\* lines 255-257: the destination exists and nothing allows overwriting it
NeedsPrompt(o, c, metaOut, exists) ==
  exists /\ ~o.Force /\ ~o.Watch /\ ~isOverwriteAllowed(c, metaOut)

\* lines 217-257: format, option bag, output path, overwrite check
Resolve(j) ==
  /\ Alive
  /\ jobs[j].pc = "resolve"
  /\ LET ref == MetaRef(cfg, targets[j])
         metaOut == MetaOut(cfg, targets[j], ref)
     IN \E pathOK \in BOOLEAN, ex \in BOOLEAN :
          IF ~pathOK
            THEN /\ ~ex
                 /\ ReturnHolding(j, [jobs[j] EXCEPT !.ref = ref], PathErr(j))
            ELSE /\ jobs' = Set(j, [jobs[j] EXCEPT
                                      !.ref = ref,
                                      !.exists = ex,
                                      !.pc = IF NeedsPrompt(opts, cfg, metaOut, ex)
                                               THEN "lock" ELSE "build"])
                 /\ UNCHANGED <<semCur, semWaiters, semReady>>
  /\ UNCHANGED <<opts, postArgs, cfg, mainpc, ret, targets, limit, promptMu,
                 parentDone, gErr, reported, call, watch>>

\* the mutant of MayLock: the prompt is not guarded by the mutex
MayLockAlways(mu) == TRUE

\* promptMu.Lock() succeeds when the mutex is free
MayLock(mu) == mu = 0

\* promptMu.Lock(), then the question is written to the terminal
Lock(j) ==
  /\ Alive
  /\ jobs[j].pc = "lock"
  /\ MayLock(promptMu)
  /\ promptMu' = j
  /\ jobs' = Set(j, [jobs[j] EXCEPT !.pc = "prompting", !.asked = TRUE])
  /\ UNCHANGED <<opts, postArgs, cfg, mainpc, ret, targets, limit, semCur,
                 semWaiters, semReady, parentDone, gErr, reported,
                 call, watch>>

\* what the user meant by the text typed: a yes is a line, ended by a
\* newline, that reads "y" or "yes" once blanks around it and the case of
\* its letters are ignored
SaidYes(a) ==
  \E n \in 1..Len(a) :
    /\ a[n] = NL
    /\ \A k \in 1..(n - 1) : a[k] # NL
    /\ \E from \in 1..n, to \in 0..(n - 1) :
         /\ \A k \in 1..(from - 1) : a[k] \in SpaceChars
         /\ \A k \in (to + 1)..n : a[k] \in SpaceChars
         /\ ToLower(SubSeq(a, from, to)) \in {<<"y">>, <<"y", "e", "s">>}

\* the answer is read, promptMu.Unlock(); declined: return nil
Answer(j) ==
  /\ Alive
  /\ jobs[j].pc = "prompting"
  /\ promptMu' = 0
  /\ \E a \in Answers :
       LET r == [jobs[j] EXCEPT !.declined = ~SaidYes(a)]
       IN IF askForConfirmation(a)
            THEN /\ jobs' = Set(j, [r EXCEPT !.pc = "build",
                                             !.confirmed = TRUE])
                 /\ UNCHANGED <<semCur, semWaiters, semReady>>
            ELSE ReturnHolding(j, [r EXCEPT !.skipped = TRUE], NoErr)
  /\ UNCHANGED <<opts, postArgs, cfg, mainpc, ret, targets, limit,
                 parentDone, gErr, reported, call, watch>>

RECURSIVE Itoa(_)
\* the decimal digits of an int, as %v prints it
Itoa(n) ==
  IF n < 0 THEN <<"-">> \o Itoa(0 - n)
  ELSE IF n < 10 THEN <<Digits[n + 1]>>
  ELSE Itoa(n \div 10) \o <<Digits[(n % 10) + 1]>>

RECURSIVE Format(_)
RECURSIVE FormatJoin(_)
RECURSIVE FormatEntries(_, _)
\* fmt.Sprintf("%v", v): the characters printed for a dynamic value
Format(v) ==
  CASE v.t = "nil" -> Chars("<nil>")
    [] v.t = "bool" -> (IF v.b THEN Chars("true") ELSE Chars("false"))
    [] v.t = "int" -> Itoa(v.n)
    [] v.t = "string" -> Chars(v.s)
    [] v.t = "list" -> <<"[">> \o FormatJoin(v.l) \o <<"]">>
    [] v.t = "map" ->
         <<"m", "a", "p", "[">>
           \o FormatEntries(v.m, SortStrings(DOMAIN v.m)) \o <<"]">>

\* the elements of a list as %v prints them, a blank between two
FormatJoin(l) ==
  IF l = <<>> THEN <<>>
  ELSE IF Len(l) = 1 THEN Format(l[1])
  ELSE Format(l[1]) \o <<" ">> \o FormatJoin(Tail(l))

\* the entries of a map as %v prints them: key:value, in key order
FormatEntries(m, keys) ==
  IF keys = <<>> THEN <<>>
  ELSE Chars(keys[1]) \o <<":">> \o Format(m[keys[1]])
         \o (IF Len(keys) = 1
               THEN <<>>
               ELSE <<" ">> \o FormatEntries(m, Tail(keys)))

\* fmt.Sprintf("%v", item) for each item of a list
Sprint(l) == [i \in 1..Len(l) |-> Format(l[i])]

\* pandoc.GetArgs(meta), lines 349-358: the pandoc_args it sets aside
GetArgsPandocArgs(meta) ==
  IF Has(meta, "pandoc_args") /\ meta["pandoc_args"].t = "list"
    THEN Sprint(meta["pandoc_args"].l)
    ELSE <<>>

\* the mutant of GetArgsLeaves: pandoc_args stays in the map
GetArgsKeeps(meta) == meta

\* pandoc.GetArgs(meta), line 357: meta as the call leaves it
GetArgsLeaves(meta) ==
  IF Has(meta, "pandoc_args") THEN Delete(meta, "pandoc_args") ELSE meta

\* the flag and shorthand tags of the fields of options.Options
OptionTags ==
  <<[flag |-> "to", shorthand |-> "t"],
    [flag |-> "output", shorthand |-> "o"],
    [flag |-> "force", shorthand |-> "f"],
    [flag |-> "dry-run", shorthand |-> "n"],
    [flag |-> "verbose", shorthand |-> "v"],
    [flag |-> "quiet", shorthand |-> "q"],
    [flag |-> "log", shorthand |-> "l"],
    [flag |-> "all", shorthand |-> "a"],
    [flag |-> "watch", shorthand |-> "w"],
    [flag |-> "concurrency", shorthand |-> "c"]>>

\* the mutant of internalFlags: the shorthands are left out
InternalLongFlags ==
  {<<"-", "-">> \o Chars(OptionTags[i].flag) : i \in 1..Len(OptionTags)}
    \cup {<<"-", "-">> \o Chars("help"), <<"-">> \o Chars("h")}

\* pandoc.internalFlags after init(): the flags panforge keeps to itself
internalFlags ==
  {<<"-", "-">> \o Chars(OptionTags[i].flag) : i \in 1..Len(OptionTags)}
    \cup {<<"-">> \o Chars(OptionTags[i].shorthand) :
             i \in 1..Len(OptionTags)}
    \cup {<<"-", "-">> \o Chars("help"), <<"-">> \o Chars("h")}

\* strings.ReplaceAll(key, "_", "-")
OptName(key) == [i \in 1..Len(key) |-> IF key[i] = "_" THEN "-" ELSE key[i]]

RECURSIVE ListArgs(_, _)
\* lines 398-401: flag and the string form of the item, for each item
ListArgs(flag, l) ==
  IF l = <<>>
    THEN <<>>
    ELSE <<flag, Format(Head(l))>> \o ListArgs(flag, Tail(l))

RECURSIVE MapArgs(_, _, _)
\* lines 402-405: flag and key=value for each entry, the entries in the
\* order `keys` in which range happens to visit them
MapArgs(flag, m, keys) ==
  IF keys = <<>>
    THEN <<>>
    ELSE <<flag, Chars(Head(keys)) \o <<"=">> \o Format(m[Head(keys)])>>
           \o MapArgs(flag, m, Tail(keys))

\* the keys a map value of an option bag may have
SubKeys == {"a", "b"}

\* the orders in which `range` over a map may visit the keys: Go leaves
\* the order open, and it may differ from one loop to the next
MapOrders ==
  {p \in [1..Cardinality(SubKeys) -> SubKeys] :
     \A i, k \in DOMAIN p : p[i] = p[k] => i = k}

\* the keys of the map m in the order ord puts them in
Visit(m, ord) == SelectSeq(ord, LAMBDA k : k \in DOMAIN m)

\* the mutant of KeyArgs: a boolean is printed like any other scalar
KeyArgsPrintsBool(key, val, ord) ==
  IF key \in {"to", "t", "output", "from"}
    THEN <<>>
    ELSE LET optName == OptName(Chars(key))
             flagToCheck == IF Len(optName) > 1
                              THEN <<"-", "-">> \o optName
                              ELSE <<"-">> \o optName
             flag == <<"-", "-">> \o optName
         IN IF flagToCheck \in internalFlags THEN <<>>
            ELSE IF val.t = "list" THEN ListArgs(flag, val.l)
            ELSE IF val.t = "map" THEN MapArgs(flag, val.m, Visit(val.m, ord))
            ELSE <<flag, Format(val)>>

\* lines 368-410: what one key of meta adds to args
KeyArgs(key, val, ord) ==
  IF key \in {"to", "t", "output", "from"}
    THEN <<>>
    ELSE LET optName == OptName(Chars(key))
             flagToCheck == IF Len(optName) > 1
                              THEN <<"-", "-">> \o optName
                              ELSE <<"-">> \o optName
             flag == <<"-", "-">> \o optName
         IN IF flagToCheck \in internalFlags THEN <<>>
            ELSE IF val = BoolV(FALSE) THEN <<>>
            ELSE IF val.t = "bool" THEN (IF val.b THEN <<flag>> ELSE <<>>)
            ELSE IF val.t = "list" THEN ListArgs(flag, val.l)
            ELSE IF val.t = "map" THEN MapArgs(flag, val.m, Visit(val.m, ord))
            ELSE <<flag, Format(val)>>

RECURSIVE KeysArgs(_, _, _)
\* lines 367-411: the loop over the sorted keys
KeysArgs(meta, keys, ord) ==
  IF keys = <<>>
    THEN <<>>
    ELSE KeyArgs(Head(keys), meta[Head(keys)], ord)
           \o KeysArgs(meta, Tail(keys), ord)

\* pandoc.GetArgs(meta): the vector it returns when range visits the
\* entries of a map value in the order ord
GetArgs(meta, ord) ==
  LET left == GetArgsLeaves(meta)
  IN KeysArgs(left, SortStrings(DOMAIN left), ord)
       \o GetArgsPandocArgs(meta)

\* cfg after the map metaOut points to has become m
WithMetaOut(c, t, ref, m) ==
  CASE ref = "OutputMap" ->
         [c EXCEPT !.OutputMap = [c.OutputMap EXCEPT ![t] = MapV(m)]]
    [] ref = "Generic" ->
         [c EXCEPT !.Generic = [c.Generic EXCEPT ![t] = MapV(m)]]
    [] OTHER -> c

\* job j is about to delete from the map metaOut points to while job k is
\* about to read or write the same map
MapRace(j, k) ==
  /\ j # k
  /\ jobs[j].pc = "build"
  /\ jobs[j].ref # "own"
  /\ Has(MetaOut(cfg, targets[j], jobs[j].ref), "pandoc_args")
  /\ targets[k] = targets[j]
  /\ jobs[k].pc \in {"resolve", "build"}

\* the Go runtime finds a map read or written while GetArgs deletes from it:
\* "fatal error: concurrent map read and map write", the process ends
MapFault ==
  /\ Alive
  /\ \E j, k \in Jobs : MapRace(j, k)
  /\ mainpc' = "crashed"
  /\ UNCHANGED <<opts, postArgs, cfg, ret, targets, limit, jobs, semCur,
                 semWaiters, semReady, promptMu, parentDone, gErr, reported,
                 call, watch>>

\* lines 275-281: the command's head and pandoc.GetArgs(metaOut)
Build(j) ==
  /\ Alive
  /\ jobs[j].pc = "build"
  /\ LET metaOut == MetaOut(cfg, targets[j], jobs[j].ref)
     IN /\ \E ord \in MapOrders :
             jobs' = Set(j, [jobs[j] EXCEPT !.pc = "rewrite",
                                            !.idx = 1,
                                            !.yaml = GetArgs(metaOut, ord)])
        /\ cfg' = WithMetaOut(cfg, targets[j], jobs[j].ref,
                              GetArgsLeaves(metaOut))
  /\ UNCHANGED <<opts, postArgs, mainpc, ret, targets, limit, semCur,
                 semWaiters, semReady, promptMu, parentDone, gErr, reported,
                 call, watch>>

\* what a reader finds in a string variable between the two word stores of
\* an assignment to it
Torn == "<torn>"

\* one iteration of the loop of lines 285-290, up to the first word of the
\* store `postArgs[i] = "--to"` (a string is two words, stored one by one)
Rewrite(j) ==
  /\ Alive
  /\ jobs[j].pc = "rewrite"
  /\ jobs[j].idx <= Len(postArgs)
  /\ IF postArgs[jobs[j].idx] = "-t"
       THEN /\ postArgs' = [postArgs EXCEPT ![jobs[j].idx] = Torn]
            /\ jobs' = Set(j, [jobs[j] EXCEPT !.pc = "storing"])
       ELSE /\ postArgs' = postArgs
            /\ jobs' = Set(j, [jobs[j] EXCEPT !.idx = jobs[j].idx + 1])
  /\ UNCHANGED <<opts, cfg, mainpc, ret, targets, limit, semCur, semWaiters,
                 semReady, promptMu, parentDone, gErr, reported, call, watch>>

\* the second word of the store `postArgs[i] = "--to"`, and i++
RewriteStored(j) ==
  /\ Alive
  /\ jobs[j].pc = "storing"
  /\ postArgs' = [postArgs EXCEPT ![jobs[j].idx] = "--to"]
  /\ jobs' = Set(j, [jobs[j] EXCEPT !.pc = "rewrite",
                                    !.idx = jobs[j].idx + 1])
  /\ UNCHANGED <<opts, cfg, mainpc, ret, targets, limit, semCur, semWaiters,
                 semReady, promptMu, parentDone, gErr, reported, call, watch>>

\* lines 291-322: postArgs appended, the command logged, executor.Run called
Invoke(j) ==
  /\ Alive
  /\ jobs[j].pc = "rewrite"
  /\ jobs[j].idx > Len(postArgs)
  /\ jobs' = Set(j, [jobs[j] EXCEPT !.pc = "running",
                                    !.passed = postArgs,
                                    !.invoked = jobs[j].invoked + 1,
                                    !.ctxAtRun = ctxDone])
  /\ UNCHANGED <<opts, postArgs, cfg, mainpc, ret, targets, limit, semCur,
                 semWaiters, semReady, promptMu, parentDone, gErr, reported,
                 call, watch>>

\* the mutant of ExecReturn: a failed call is made once more
ExecReturnRetries(j) ==
  /\ Alive
  /\ jobs[j].pc = "running"
  /\ \E ok \in BOOLEAN :
       IF ok \/ jobs[j].invoked > 1
         THEN ReturnHolding(j, jobs[j], IF ok THEN NoErr ELSE ExecErr(j))
         ELSE /\ jobs' = Set(j, [jobs[j] EXCEPT !.pc = "rewrite"])
              /\ UNCHANGED <<semCur, semWaiters, semReady>>
  /\ UNCHANGED <<opts, postArgs, cfg, mainpc, ret, targets, limit, promptMu,
                 parentDone, gErr, reported, call, watch>>

\* executor.Run returns; lines 322-325
ExecReturn(j) ==
  /\ Alive
  /\ jobs[j].pc = "running"
  /\ \E ok \in BOOLEAN :
       ReturnHolding(j, jobs[j], IF ok THEN NoErr ELSE ExecErr(j))
  /\ UNCHANGED <<opts, postArgs, cfg, mainpc, ret, targets, limit, promptMu,
                 parentDone, gErr, reported, call, watch>>

\* errgroup's wrapper after the closure returned: errOnce, then g.done()
Report(j) ==
  /\ Alive
  /\ jobs[j].pc = "report"
  /\ jobs' = Set(j, [jobs[j] EXCEPT !.pc = "done"])
  /\ IF jobs[j].err # NoErr
       THEN /\ gErr' = errOnce(gErr, jobs[j].err)
            /\ reported' = Append(reported, j)
       ELSE UNCHANGED <<gErr, reported>>
  /\ UNCHANGED <<opts, postArgs, cfg, mainpc, ret, targets, limit, semCur,
                 semWaiters, semReady, promptMu, parentDone, call, watch>>

Next ==
  \/ BeginNoPandoc
  \/ BeginNoHeader
  \/ BeginLoaded
  \/ Spawn
  \/ Wait
  \/ CancelParent
  \/ \E j \in Jobs : Acquire(j)
  \/ \E j \in Jobs : AcquireReady(j)
  \/ \E j \in Jobs : AcquireCancelled(j)
  \/ \E j \in Jobs : Resolve(j)
  \/ \E j \in Jobs : Lock(j)
  \/ \E j \in Jobs : Answer(j)
  \/ \E j \in Jobs : Build(j)
  \/ MapFault
  \/ \E j \in Jobs : Rewrite(j)
  \/ \E j \in Jobs : RewriteStored(j)
  \/ \E j \in Jobs : Invoke(j)
  \/ \E j \in Jobs : ExecReturn(j)
  \/ \E j \in Jobs : Report(j)

Spec == Init /\ [][Next]_vars

(***************************************************************************)
(* utils.Slugify, utils.SanitizeFilename and                               *)
(* pandoc.GenerateOutputFilename, on texts given by their characters.      *)
(***************************************************************************)
RECURSIVE ReplaceAll(_, _, _)
\* strings.ReplaceAll(s, old, new), old not empty
ReplaceAll(s, old, new) ==
  IF Len(s) < Len(old) THEN s
  ELSE IF SubSeq(s, 1, Len(old)) = old
    THEN new \o ReplaceAll(SubSeq(s, Len(old) + 1, Len(s)), old, new)
  ELSE <<Head(s)>> \o ReplaceAll(Tail(s), old, new)

\* strings.ToUpper, one character
UpperChar(c) ==
  IF \E i \in 1..Len(LowerLetters) : LowerLetters[i] = c
    THEN UpperLetters[CHOOSE i \in 1..Len(LowerLetters) : LowerLetters[i] = c]
    ELSE c

ToUpper(s) == [i \in 1..Len(s) |-> UpperChar(s[i])]

\* the characters slugRegex "[^a-z0-9]+" does not match
SlugChars ==
  {LowerLetters[i] : i \in 1..Len(LowerLetters)}
    \cup {Digits[i] : i \in 1..Len(Digits)}

RECURSIVE SlugReplace(_)
\* slugRegex.ReplaceAllString(s, "-"): every run of other characters
\* becomes one dash
SlugReplace(s) ==
  IF s = <<>> THEN <<>>
  ELSE IF Head(s) \in SlugChars THEN <<Head(s)>> \o SlugReplace(Tail(s))
  ELSE IF Len(s) > 1 /\ s[2] \notin SlugChars THEN SlugReplace(Tail(s))
  ELSE <<"-">> \o SlugReplace(Tail(s))

RECURSIVE TrimDashes(_)
\* strings.Trim(s, "-")
TrimDashes(s) ==
  IF s # <<>> /\ Head(s) = "-" THEN TrimDashes(Tail(s))
  ELSE IF s # <<>> /\ s[Len(s)] = "-"
    THEN TrimDashes(SubSeq(s, 1, Len(s) - 1))
  ELSE s

\* utils.Slugify(title)
Slugify(title) ==
  IF title = <<>>
    THEN <<>>
    ELSE TrimDashes(SlugReplace(ToLower(TrimSpace(title))))

\* badChars of sanitize
WindowsBadChars == <<"<", ">", ":", "\"", "/", "\\", "|", "?", "*">>

\* badNames of sanitize
WindowsBadNames ==
  {<<"C", "O", "N">>, <<"P", "R", "N">>, <<"A", "U", "X">>,
   <<"N", "U", "L">>}
    \cup {<<"C", "O", "M", Digits[i]>> : i \in 2..10}
    \cup {<<"L", "P", "T", Digits[i]>> : i \in 2..10}

RECURSIVE ReplaceEach(_, _, _)
\* strings.ReplaceAll(s, b, "_") for each b of the list bad, in turn
ReplaceEach(s, bad, i) ==
  IF i > Len(bad)
    THEN s
    ELSE ReplaceEach(ReplaceAll(s, <<bad[i]>>, <<"_">>), bad, i + 1)

\* the mutant of sanitize: the separators stay
SanitizeKeepsSeparators(name, osName) ==
  IF name = <<>> THEN <<>> ELSE TrimSpace(name)

\* utils.sanitize(name, osName)
sanitize(name, osName) ==
  IF name = <<>>
    THEN <<>>
    ELSE LET s1 == ReplaceAll(ReplaceAll(TrimSpace(name), <<"/">>, <<"_">>),
                              <<"\\">>, <<"_">>)
             s2 == IF osName = "darwin"
                     THEN ReplaceAll(s1, <<":">>, <<"_">>)
                     ELSE s1
         IN IF osName = "windows"
              THEN LET s3 == ReplaceEach(s2, WindowsBadChars, 1)
                   IN IF ToUpper(s3) \in WindowsBadNames THEN <<"_">> ELSE s3
              ELSE s2

\* pandoc.ExtForFormat(fmtStr)
ExtForFormat(fmtStr) ==
  LET f == ToLower(fmtStr)
  IN CASE f \in {Chars("html"), Chars("html5")} -> Chars("html")
       [] f \in {Chars("epub"), Chars("epub3")} -> Chars("epub")
       [] f = Chars("docx") -> Chars("docx")
       [] f \in {Chars("markdown"), Chars("md")} -> Chars("md")
       [] f \in {Chars("latex"), Chars("tex")} -> Chars("tex")
       [] f = Chars("pdf") -> Chars("pdf")
       [] f = Chars("beamer") -> Chars("pdf")
       [] OTHER -> f

\* os.IsPathSeparator of the build for osName
IsPathSeparator(c, osName) ==
  c = "/" \/ (osName = "windows" /\ c = "\\")

\* filepath.Ext(path): from the last dot of the last element of path
Ext(path, osName) ==
  LET dots == {i \in 1..Len(path) :
                 /\ path[i] = "."
                 /\ \A k \in i..Len(path) : ~IsPathSeparator(path[k], osName)}
  IN IF dots = {}
       THEN <<>>
       ELSE SubSeq(path, CHOOSE i \in dots : \A k \in dots : k <= i,
                   Len(path))

\* lines 320-327: shouldSlugify
ShouldSlugify(c, metaOut) ==
  IF Has(metaOut, "slugify-filename")
    THEN metaOut["slugify-filename"].t = "bool"
           /\ metaOut["slugify-filename"].b
    ELSE c.SlugifyFilename # NilV /\ c.SlugifyFilename.b

\* pandoc.GenerateOutputFilename(inputFile, cfg, metaOut, pandocFmt), where
\* in.heading is the text of the first "# " line of the input file (empty
\* when there is none), in.base the file's name without its extension, and
\* env the build's GOOS and the clock's date and time
GenerateOutputFilename(in, c, metaOut, pandocFmt, env) ==
  IF /\ Has(metaOut, "output")
     /\ metaOut["output"].t = "string"
     /\ metaOut["output"].s # ""
    THEN Chars(metaOut["output"].s)
    ELSE
      LET title == IF c.Title # <<>> THEN c.Title
                   ELSE IF in.heading # <<>> THEN in.heading
                   ELSE in.base
          tmpl == IF c.FilenameTemplate = <<>>
                    THEN Chars("{title}_{date}.{ext}")
                    ELSE c.FilenameTemplate
          r1 == ReplaceAll(tmpl, Chars("{date}"), env.date)
          r2 == ReplaceAll(r1, Chars("{time}"), env.time)
          r3 == ReplaceAll(r2, Chars("{title}"), title)
          r4 == ReplaceAll(r3, Chars("{author}"), c.Author)
          r5 == ReplaceAll(r4, Chars("{title-slug}"), Slugify(title))
          r6 == ReplaceAll(r5, Chars("{author-slug}"), Slugify(c.Author))
          r7 == ReplaceAll(r6, Chars("{ext}"), ExtForFormat(pandocFmt))
          result == sanitize(r7, env.os)
      IN IF ShouldSlugify(c, metaOut)
           THEN LET ext == Ext(result, env.os)
                    base == SubSeq(result, 1, Len(result) - Len(ext))
                IN Slugify(base) \o ext
           ELSE result

(***************************************************************************)
(* The output path of a job (Process, lines 217-252), on a platform whose  *)
(* path separator is "/".                                                  *)
(***************************************************************************)
RECURSIVE SkipSlashes(_)
\* path without the separators it starts with
SkipSlashes(path) ==
  IF path # <<>> /\ Head(path) = "/" THEN SkipSlashes(Tail(path)) ELSE path

\* the length of the element path starts with
ElementLen(path) ==
  IF \E i \in 1..Len(path) : path[i] = "/"
    THEN (CHOOSE i \in 1..Len(path) :
            path[i] = "/" /\ \A k \in 1..(i - 1) : path[k] # "/") - 1
    ELSE Len(path)

RECURSIVE CleanParts(_, _)
\* filepath.Clean of a rooted path: its elements from left to right, kept
\* holds the elements retained so far; "" and "." are dropped, ".." drops
\* the element before it
CleanParts(path, kept) ==
  IF path = <<>>
    THEN kept
    ELSE LET rest == SkipSlashes(path)
             n == ElementLen(rest)
             e == SubSeq(rest, 1, n)
             after == SubSeq(rest, n + 1, Len(rest))
         IN IF e = <<>> \/ e = <<".">> THEN CleanParts(after, kept)
            ELSE IF e = <<".", ".">>
              THEN CleanParts(after,
                              IF kept = <<>>
                                THEN kept
                                ELSE SubSeq(kept, 1, Len(kept) - 1))
            ELSE CleanParts(after, Append(kept, e))

RECURSIVE JoinRooted(_)
\* the rooted path of the elements parts
JoinRooted(parts) ==
  IF parts = <<>>
    THEN <<>>
    ELSE <<"/">> \o Head(parts) \o JoinRooted(Tail(parts))

\* utils.ResolvePath(path) in the working directory cwd: filepath.Abs
ResolvePath(path, cwd) ==
  IF path = <<>>
    THEN <<>>
    ELSE LET joined == IF Head(path) = "/" THEN path
                       ELSE cwd \o <<"/">> \o path
             parts == CleanParts(joined, <<>>)
         IN IF parts = <<>> THEN <<"/">> ELSE JoinRooted(parts)

\* lines 217-252: the output path of the job for target t
OutputFile(output, in, c, t, env, cwd) ==
  LET metaOut == MetaOut(c, t, MetaRef(c, t))
      name == IF output # ""
                THEN Chars(output)
                ELSE GenerateOutputFilename(in, c, metaOut, FormatOf(c, t),
                                            env)
  IN ResolvePath(name, cwd)

(***************************************************************************)
(* SpecFn: the pure helpers, each applied once to inputs drawn from        *)
(* bounded sets.                                                           *)
(***************************************************************************)
\* what a configuration may hold under the key `overwrite`
OverwriteValues ==
  {BoolV(TRUE), BoolV(FALSE), StrV("true"), StrV("yes"), NilV,
   ListV(<<BoolV(TRUE)>>)}

\* maps with or without the key `overwrite`
OverwriteMaps ==
  {EmptyMap} \cup {("overwrite" :> v) : v \in OverwriteValues}
    \cup {("overwrite" :> v) @@ ("toc" :> BoolV(TRUE)) : v \in OverwriteValues}

\* opts.Targets: what -t/--to named
TargetLists == SeqsUpTo(TargetNames, MaxTargets)

\* cfg.Outputs: the elements of an `outputs:` list, format names or not
OutputsLists == SeqsUpTo({StrV("pdf"), StrV("html"), IntV(5)}, MaxTargets)

\* cfg.OutputMap: the keys of an `output:` map
OutputMaps == {[k \in K |-> NilV] : K \in SUBSET {"pdf", "html", "docx"}}

\* what a configuration may hold for one target: nothing (a missing key is
\* "absent"), a map, or something that is not a map
Absent == StrV("absent")

LayerEntries ==
  {Absent, NilV, StrV("x"), MapV(EmptyMap), MapV("toc" :> BoolV(TRUE)),
   MapV("to" :> StrV("html5")), MapV("to" :> StrV(""))}

\* the map with the one key t, if e is an entry
EntryMap(t, e) == IF e = Absent THEN EmptyMap ELSE (t :> e)

\* targets as they may be written: plain, with extensions, without a name
ResolveTargets == {"html", "markdown+smart", "markdown-smart", "+smart", ""}

\* the scalar keys and the maps of a configuration to be merged, the
\* entries of its maps marked by v
MergeConfigs(v) ==
  {[EmptyConfig EXCEPT !.Title = ti, !.FilenameTemplate = ft,
                       !.SlugifyFilename = sl,
                       !.OutputMap = [k \in om |-> StrV(v)],
                       !.Generic = [k \in ge |-> StrV(v)]] :
     ti \in {<<>>, <<v>>},
     ft \in {<<>>, Chars("{title}") \o <<v>>},
     sl \in {NilV, BoolV(TRUE), BoolV(FALSE)},
     om \in SUBSET {"html", "pdf"},
     ge \in SUBSET {"html", "pdf"}}

RECURSIVE SetsUpTo(_, _)
\* the subsets of S with at most n elements
SetsUpTo(S, n) ==
  IF n = 0
    THEN {{}}
    ELSE LET smaller == SetsUpTo(S, n - 1)
         IN smaller \cup {K \cup {x} : K \in smaller, x \in S}

\* keys of an option bag: the names panforge keeps to itself, with their
\* shorthands and an underscore spelling, and names it forwards
BagKeys ==
  {"to", "t", "output", "from", "o", "force", "f", "dry-run", "dry_run", "n",
   "verbose", "v", "quiet", "q", "log", "l", "all", "a", "watch", "w",
   "concurrency", "c", "help", "h",
   "toc", "toc_depth", "variable", "x", "pandoc_args"}

\* values of an option bag, of every type GetArgs tells apart
BagValues ==
  {BoolV(TRUE), BoolV(FALSE), IntV(2), NilV, StrV("html5"),
   ListV(<<>>), ListV(<<StrV("a=1"), StrV("b=2")>>),
   ListV(<<StrV("--toc"), IntV(2)>>),
   MapV("a" :> StrV("html5")),
   MapV(("a" :> IntV(1)) @@ ("b" :> IntV(2)))}

\* pandoc_args may also name a flag that panforge has itself
PandocArgsValues == BagValues \cup {ListV(<<StrV("--force"), StrV("--toc")>>)}

\* the option bags with the keys K
BagsOver(K) ==
  {m \in [K -> PandocArgsValues] :
     \A k \in K : k # "pandoc_args" => m[k] \in BagValues}

\* the characters of the titles tried
TitleAlphabet == {"a", "B", " ", "/", "\\", ".", ":"}

\* the texts over TitleAlphabet of at most n characters
TextsUpTo(n) == UNION {[1..k -> TitleAlphabet] : k \in 0..n}

\* cfg.Title
Titles == TextsUpTo(MaxTitleLen)

\* cfg.Author
Authors == {<<>>, <<"c", "/">>}

\* the first heading of the input file, read when cfg.Title is empty
Headings == {<<>>, <<"h", "\\">>}

\* cfg.FilenameTemplate; the empty one stands for the default template
FilenameTemplates ==
  {<<>>,
   Chars("{title}"),
   Chars("{author}") \o <<"/">> \o Chars("{title}") \o <<".">>
     \o Chars("{ext}"),
   <<".", ".", "/">> \o Chars("{title-slug}") \o <<".">> \o Chars("{ext}"),
   Chars("{title}") \o <<"\\">> \o Chars("{author-slug}")}

\* pandocFmt
PandocFormats == {Chars("html"), <<"x", "/", "y">>}

\* runtime.GOOS, and the date and time of the clock
Envs ==
  {[os |-> o, date |-> Chars("2026-11-04"), time |-> Chars("15-04-05")] :
     o \in {"linux", "darwin", "windows"}}

\* the bag's "slugify-filename" entry
SlugifyEntries == {Absent, BoolV(TRUE), BoolV(FALSE), StrV("x")}

\* cfg.SlugifyFilename
SlugifyFlags == {NilV, BoolV(TRUE), BoolV(FALSE)}

\* the bag's "output" entry
OutputEntries == {Absent, StrV(""), StrV("out/a.html"), IntV(2)}

\* the option bag with the entries o and sl
NameBag(o, sl) ==
  LET a == IF o = Absent THEN EmptyMap ELSE "output" :> o
      b == IF sl = Absent THEN EmptyMap ELSE "slugify-filename" :> sl
  IN a @@ b

\* the calls of GenerateOutputFilename tried: with a non-empty output
\* override the other inputs are not read, and the heading is read only
\* when the title is empty
NameCalls ==
  {[in |-> [heading |-> <<>>, base |-> <<"i", "n">>],
    cfg |-> EmptyConfig, meta |-> NameBag(StrV("out/a.html"), sl),
    fmt |-> Chars("html"), env |-> e] :
     sl \in SlugifyEntries, e \in Envs}
  \cup
  {[in |-> [heading |-> x[1], base |-> <<"i", "n">>],
    cfg |-> [EmptyConfig EXCEPT !.Title = x[2], !.Author = x[3],
                                !.FilenameTemplate = x[4],
                                !.SlugifyFilename = x[5]],
    meta |-> NameBag(x[6], x[7]), fmt |-> x[8], env |-> x[9]] :
     x \in {y \in Headings \X Titles \X Authors \X FilenameTemplates
                    \X SlugifyFlags \X (OutputEntries \ {StrV("out/a.html")})
                    \X SlugifyEntries \X PandocFormats \X Envs :
              y[2] # <<>> => y[1] = <<>>}}

\* the target lists of the runs whose output paths are compared
PathTargetLists == SeqsUpTo({"html", "html5", "pdf"}, MaxTargets) \ {<<>>}

\* the configurations of those runs
PathConfigs ==
  {[EmptyConfig EXCEPT !.Title = ti, !.FilenameTemplate = te,
                       !.OutputMap = om] :
     ti \in {<<>>, <<"a">>},
     te \in {<<>>, Chars("{title}")},
     om \in {EmptyMap,
             "html" :> MapV("output" :> StrV("out/a.html"))}}

\* opts.Output: not given, or a file name
OutputOptions == {"", "out/a.html"}

InitFn ==
  /\ opts = [Targets |-> <<>>, Force |-> FALSE, Watch |-> FALSE,
             Concurrency |-> 0]
  /\ postArgs = <<>>
  /\ cfg = EmptyConfig
  /\ mainpc = "returned"
  /\ ret = NoErr
  /\ targets = <<>>
  /\ limit = 0
  /\ jobs = <<>>
  /\ semCur = 0
  /\ semWaiters = <<>>
  /\ semReady = {}
  /\ promptMu = 0
  /\ parentDone = FALSE
  /\ gErr = NoErr
  /\ reported = <<>>
  /\ watch = NoWatch
  /\ \/ \E g \in OverwriteMaps, m \in OverwriteMaps :
          call = [NoCall EXCEPT !.fn = "isOverwriteAllowed",
                                !.generic = MapV(g), !.meta = MapV(m)]
     \/ \E t \in ResolveTargets, dp \in LayerEntries, dg \in LayerEntries,
           fp \in LayerEntries, fg \in LayerEntries :
          call = [NoCall EXCEPT
                    !.fn = "resolve",
                    !.arg = [t |-> t,
                             doc |-> [EmptyConfig EXCEPT
                                        !.OutputMap = EntryMap(t, dp),
                                        !.Generic = EntryMap(t, dg)],
                             def |-> [EmptyConfig EXCEPT
                                        !.OutputMap = EntryMap(t, fp),
                                        !.Generic = EntryMap(t, fg)]]]
     \/ \E doc \in MergeConfigs("a"), def \in MergeConfigs("b") :
          call = [NoCall EXCEPT !.fn = "merge",
                                !.arg = [doc |-> doc, def |-> def]]
     \/ \E K \in SetsUpTo(BagKeys, MaxKeys) : \E m \in BagsOver(K) :
          call = [NoCall EXCEPT !.fn = "GetArgs", !.arg = [meta |-> m]]
     \/ \E ts \in TargetLists, os \in OutputsLists, om \in OutputMaps :
          call = [NoCall EXCEPT
                    !.fn = "DetermineTargets",
                    !.arg = [Targets |-> ts, Outputs |-> os, OutputMap |-> om]]
     \/ \E a \in AnswerTexts :
          call = [NoCall EXCEPT !.fn = "askForConfirmation", !.input = a]
     \/ \E n \in NameCalls :
          call = [NoCall EXCEPT !.fn = "GenerateOutputFilename", !.arg = n]
     \/ \E o \in OutputOptions, ts \in PathTargetLists, c \in PathConfigs,
           e \in Envs :
          /\ e.os # "windows"
          /\ call = [NoCall EXCEPT
                       !.fn = "OutputFile",
                       !.arg = [Output |-> o, Targets |-> ts, cfg |-> c,
                                in |-> [heading |-> <<>>,
                                        base |-> <<"i", "n">>],
                                env |-> e, cwd |-> <<"/", "w">>]]

\* isOverwriteAllowed(cfg, metaOut) is called
CallIsOverwriteAllowed ==
  /\ call.fn = "isOverwriteAllowed"
  /\ ~call.done
  /\ call' = [call EXCEPT
                !.done = TRUE,
                !.result = isOverwriteAllowed(
                             [EmptyConfig EXCEPT !.Generic = call.generic.m],
                             call.meta.m)]
  /\ UNCHANGED <<schedVars, watch>>

\* askForConfirmation(filename, r, w) is called
CallAskForConfirmation ==
  /\ call.fn = "askForConfirmation"
  /\ ~call.done
  /\ call' = [call EXCEPT !.done = TRUE,
                          !.result = askForConfirmation(call.input)]
  /\ UNCHANGED <<schedVars, watch>>

\* DetermineTargets(opts, cfg) is called
CallDetermineTargets ==
  /\ call.fn = "DetermineTargets"
  /\ ~call.done
  /\ call' = [call EXCEPT
                !.done = TRUE,
                !.result = DetermineTargets(
                             [opts EXCEPT !.Targets = call.arg.Targets],
                             [EmptyConfig EXCEPT
                                !.Outputs = call.arg.Outputs,
                                !.OutputMap = call.arg.OutputMap])]
  /\ UNCHANGED <<schedVars, watch>>

\* lines 152-182 of Process: the default configuration is merged into cfg
CallMerge ==
  /\ call.fn = "merge"
  /\ ~call.done
  /\ call' = [call EXCEPT !.done = TRUE,
                          !.result = Merge(call.arg.doc, call.arg.def)]
  /\ UNCHANGED <<schedVars, watch>>

\* lines 152-182 and 217-239 of Process: the merge, then the format and
\* the option bag of target t
CallResolve ==
  /\ call.fn = "resolve"
  /\ ~call.done
  /\ LET c == Merge(call.arg.doc, call.arg.def)
         ref == MetaRef(c, call.arg.t)
     IN call' = [call EXCEPT
                   !.done = TRUE,
                   !.result = [cfg |-> c,
                               fmt |-> FormatOf(c, call.arg.t),
                               bag |-> MetaOut(c, call.arg.t, ref)]]
  /\ UNCHANGED <<schedVars, watch>>

\* pandoc.GetArgs(meta) is called, and once more on an equal map
CallGetArgs ==
  /\ call.fn = "GetArgs"
  /\ ~call.done
  /\ \E first \in MapOrders, second \in MapOrders :
       call' = [call EXCEPT
                  !.done = TRUE,
                  !.result = [args |-> GetArgs(call.arg.meta, first),
                              again |-> GetArgs(call.arg.meta, second),
                              left |-> GetArgsLeaves(call.arg.meta)]]
  /\ UNCHANGED <<schedVars, watch>>

\* pandoc.GenerateOutputFilename(inputFile, cfg, metaOut, pandocFmt) is
\* called
CallGenerateOutputFilename ==
  /\ call.fn = "GenerateOutputFilename"
  /\ ~call.done
  /\ call' = [call EXCEPT
                !.done = TRUE,
                !.result = GenerateOutputFilename(call.arg.in, call.arg.cfg,
                                                  call.arg.meta, call.arg.fmt,
                                                  call.arg.env)]
  /\ UNCHANGED <<schedVars, watch>>

\* lines 217-252 of Process, for each job of a run over the targets given
CallOutputFile ==
  /\ call.fn = "OutputFile"
  /\ ~call.done
  /\ LET a == call.arg
     IN call' = [call EXCEPT
                   !.done = TRUE,
                   !.result = [j \in 1..Len(a.Targets) |->
                                 OutputFile(a.Output, a.in, a.cfg,
                                            a.Targets[j], a.env, a.cwd)]]
  /\ UNCHANGED <<schedVars, watch>>

NextFn ==
  \/ CallGetArgs
  \/ CallMerge
  \/ CallResolve
  \/ CallIsOverwriteAllowed
  \/ CallAskForConfirmation
  \/ CallDetermineTargets
  \/ CallGenerateOutputFilename
  \/ CallOutputFile

SpecFn == InitFn /\ [][NextFn]_vars

(***************************************************************************)
(* Watch (app.Watch): the watcher, the initial run, the event loop and the *)
(* debounce timers.  A run of Process is taken as a whole here: it is      *)
(* called, and later it returns nil or an error.  Time is counted in ticks *)
(* of the clock; a timer made by time.AfterFunc may fire once its          *)
(* DebounceTicks ticks have passed.  The Events channel is closed only by  *)
(* the deferred watcher.Close(), that is after Watch has returned.         *)
(***************************************************************************)
\* the operations an fsnotify event may carry
EventOps == {"Create", "Write", "Remove", "Rename", "Chmod"}

\* line 99: event.Has(Write) || Has(Rename) || Has(Chmod) || Has(Create)
Relevant(op) == op \in {"Write", "Rename", "Chmod", "Create"}

\* a timer just made by time.AfterFunc(debounceDuration, f); early: the
\* timer before it still had time left when this one was made
NewTimer(early) ==
  [state |-> "armed",    \* armed, stopped, running (f runs Process), finished
   left |-> DebounceTicks,
   early |-> early,
   afterReturn |-> FALSE,  \* f called Process after Watch had returned
   overlapped |-> FALSE]   \* f called Process while another run was going on

\* the runs of Process in progress
ActiveRuns ==
  (IF watch.pc = "initial" THEN 1 ELSE 0)
    + Cardinality({i \in DOMAIN watch.timers :
                     watch.timers[i].state = "running"})

InitWatch ==
  /\ opts = [Targets |-> <<>>, Force |-> FALSE, Watch |-> TRUE,
             Concurrency |-> 0]
  /\ postArgs = <<>>
  /\ cfg = EmptyConfig
  /\ mainpc = "returned"
  /\ ret = NoErr
  /\ targets = <<>>
  /\ limit = 0
  /\ jobs = <<>>
  /\ semCur = 0
  /\ semWaiters = <<>>
  /\ semReady = {}
  /\ promptMu = 0
  /\ parentDone = FALSE
  /\ gErr = NoErr
  /\ reported = <<>>
  /\ call = NoCall
  /\ watch = [NoWatch EXCEPT !.pc = "setup"]

\* lines 45-54: fsnotify.NewWatcher or watcher.Add(inputFile) fails
SetupFails ==
  /\ watch.pc = "setup"
  /\ watch' = [watch EXCEPT !.pc = "returned", !.err = "setup"]
  /\ UNCHANGED <<schedVars, call>>

\* line 78: the initial Process(ctx, ...) is called
InitialRun ==
  /\ watch.pc = "setup"
  /\ watch' = [watch EXCEPT !.pc = "initial",
                            !.initialRuns = watch.initialRuns + 1]
  /\ UNCHANGED <<schedVars, call>>

\* lines 78-84: the initial run returns; an error is logged
InitialReturns ==
  /\ watch.pc = "initial"
  /\ \E ok \in BOOLEAN :
       watch' = [watch EXCEPT !.pc = "loop",
                              !.failed = watch.failed \/ ~ok]
  /\ UNCHANGED <<schedVars, call>>

\* the caller cancels ctx
CancelWatch ==
  /\ watch.pc \in {"setup", "initial", "loop"}
  /\ ~watch.done
  /\ watch' = [watch EXCEPT !.done = TRUE]
  /\ UNCHANGED <<schedVars, call>>

\* the file system reports a change of a watched file: the watcher has an
\* event to send on watcher.Events
EventArrives ==
  /\ watch.pc \in {"setup", "initial", "loop"}
  /\ watch.arrived < MaxEvents
  /\ \E op \in EventOps :
       watch' = [watch EXCEPT !.queue = Append(watch.queue, op),
                              !.arrived = watch.arrived + 1]
  /\ UNCHANGED <<schedVars, call>>

\* the mutant of Debounce: the timer before is left to run
DebounceKeepsTimer(w) ==
  LET n == Len(w.timers)
      early == n > 0 /\ w.timers[n].left > 0
  IN [w EXCEPT !.timers = Append(w.timers, NewTimer(early))]

\* lines 101-130: debounceTimer.Stop() if there is one, then
\* debounceTimer = time.AfterFunc(debounceDuration, f)
Debounce(w) ==
  LET n == Len(w.timers)
      early == n > 0 /\ w.timers[n].left > 0
      stopped == IF n > 0 /\ w.timers[n].state = "armed"
                   THEN [w.timers EXCEPT ![n].state = "stopped"]
                   ELSE w.timers
  IN [w EXCEPT !.timers = Append(stopped, NewTimer(early))]

\* lines 93-131: the select takes an event from watcher.Events
HandleEvent ==
  /\ watch.pc = "loop"
  /\ watch.queue # <<>>
  /\ LET w == [watch EXCEPT !.queue = Tail(watch.queue),
                            !.handled = watch.handled + 1]
     IN watch' = IF Relevant(Head(watch.queue)) THEN Debounce(w) ELSE w
  /\ UNCHANGED <<schedVars, call>>

\* lines 132-141: the select takes an error from watcher.Errors and logs it
HandleError ==
  /\ watch.pc = "loop"
  /\ watch.logged < MaxWatchErrors
  /\ watch' = [watch EXCEPT !.logged = watch.logged + 1]
  /\ UNCHANGED <<schedVars, call>>

\* lines 91-92: the select takes ctx.Done()
ReturnOnDone ==
  /\ watch.pc = "loop"
  /\ watch.done
  /\ watch' = [watch EXCEPT !.pc = "returned", !.err = "nil"]
  /\ UNCHANGED <<schedVars, call>>

\* the clock advances by one tick
Tick ==
  /\ watch.pc # "off"
  /\ \E i \in DOMAIN watch.timers :
       watch.timers[i].state = "armed" /\ watch.timers[i].left > 0
  /\ watch' = [watch EXCEPT
                 !.timers = [i \in DOMAIN watch.timers |->
                               IF /\ watch.timers[i].state = "armed"
                                  /\ watch.timers[i].left > 0
                                 THEN [watch.timers[i] EXCEPT
                                         !.left = watch.timers[i].left - 1]
                                 ELSE watch.timers[i]]]
  /\ UNCHANGED <<schedVars, call>>

\* lines 104-117: timer i fires: f runs in a goroutine of its own and calls
\* Process(ctx, ...)
TimerFires(i) ==
  /\ watch.timers[i].state = "armed"
  /\ watch.timers[i].left = 0
  /\ watch' = [watch EXCEPT
                 !.timers[i].state = "running",
                 !.timers[i].afterReturn = watch.pc = "returned",
                 !.timers[i].overlapped = ActiveRuns > 0]
  /\ UNCHANGED <<schedVars, call>>

\* lines 117-129: the run called by timer i returns; an error is logged
TimerRunReturns(i) ==
  /\ watch.timers[i].state = "running"
  /\ \E ok \in BOOLEAN :
       watch' = [watch EXCEPT !.timers[i].state = "finished",
                              !.failed = watch.failed \/ ~ok]
  /\ UNCHANGED <<schedVars, call>>

NextWatch ==
  \/ SetupFails
  \/ InitialRun
  \/ InitialReturns
  \/ CancelWatch
  \/ EventArrives
  \/ HandleEvent
  \/ HandleError
  \/ ReturnOnDone
  \/ Tick
  \/ \E i \in DOMAIN watch.timers : TimerFires(i)
  \/ \E i \in DOMAIN watch.timers : TimerRunReturns(i)

\* every run of Process returns, the clock advances, timers that are due
\* fire, and the loop takes what is ready
FairWatch ==
  /\ WF_vars(InitialRun)
  /\ WF_vars(InitialReturns)
  /\ WF_vars(HandleEvent)
  /\ WF_vars(ReturnOnDone)
  /\ WF_vars(Tick)
  /\ \A i \in 1..MaxEvents : WF_vars(i \in DOMAIN watch.timers /\ TimerFires(i))
  /\ \A i \in 1..MaxEvents :
       WF_vars(i \in DOMAIN watch.timers /\ TimerRunReturns(i))

SpecWatch == InitWatch /\ [][NextWatch]_vars /\ FairWatch

(***************************************************************************)
(* The states of a job, as the scheduler's contract names them.            *)
(***************************************************************************)
\* between a successful sem.Acquire and the closure's return
PastAcquire(j) ==
  jobs[j].pc \in {"resolve", "lock", "prompting", "build", "rewrite",
                  "storing", "running"}

\* the closure has returned
Terminal(j) == jobs[j].pc \in {"report", "done"}

\* Process went past its early returns and built the semaphore
Scheduled == limit > 0

(***************************************************************************)
(* Claims.                                                                 *)
(***************************************************************************)

\* C1: with cap `limit`, at every moment at most `limit` jobs are between a
\* successful semaphore acquire and their terminal state, so at most
\* `limit` executor.Run calls are in progress at once.
C1_ConcurrencyCap ==
  Scheduled =>
    /\ Cardinality({j \in Jobs : PastAcquire(j)}) <= limit
    /\ Cardinality({j \in Jobs : jobs[j].pc = "running"}) <= limit
    /\ semCur <= limit

\* a configured cap of 1 is in use by a running job while another job waits
C1_Witness ==
  /\ opts.Concurrency = 1
  /\ limit = 1
  /\ \E j, k \in Jobs : jobs[j].pc = "running" /\ jobs[k].pc = "waiting"

C3_ReturnsAfterAllJobs ==
  (mainpc = "returned" /\ Scheduled) =>
    /\ Len(jobs) = Len(targets)
    /\ \A j \in Jobs : jobs[j].pc = "done"
    /\ semWaiters = <<>>
    /\ promptMu = 0

\* Process has returned from a run of two jobs, one skipped and one run
C3_Witness ==
  /\ mainpc = "returned"
  /\ Len(jobs) = 2
  /\ \E j, k \in Jobs : jobs[j].skipped /\ jobs[k].invoked = 1

\* C4: when Process returns, an executor error of any job makes the result
\* non-nil; the result is the error of the job that was first to return an
\* error to the error group; with no failed job and no cancellation the
\* result is nil, skipped jobs or not.
C4_RunResult ==
  (mainpc = "returned" /\ Scheduled) =>
    /\ (\E j \in Jobs : jobs[j].err.kind = "exec") => ret # NoErr
    /\ reported # <<>> => ret = jobs[reported[1]].err
    /\ reported = <<>> => ret = NoErr
    /\ ((\A j \in Jobs : jobs[j].err = NoErr) /\ ~parentDone) => ret = NoErr

\* both jobs failed in the executor, the second one first
C4_Witness ==
  /\ mainpc = "returned"
  /\ Len(jobs) = 2
  /\ jobs[1].err = ExecErr(1)
  /\ jobs[2].err = ExecErr(2)
  /\ reported = <<2, 1>>
  /\ ret = ExecErr(2)

\* C5: a job whose confirmation is answered by anything but a yes, or
\* whose answer cannot be read, ends skipped: it never calls the executor
\* and gives the run no error; only other jobs' errors reach the result.
C5_DeclinedIsSkipped ==
  /\ \A j \in Jobs :
       /\ jobs[j].declined =>
            /\ jobs[j].skipped
            /\ Terminal(j)
            /\ jobs[j].invoked = 0
            /\ jobs[j].err = NoErr
            /\ \A n \in 1..Len(reported) : reported[n] # j
       /\ jobs[j].skipped => jobs[j].declined /\ jobs[j].asked
       /\ jobs[j].confirmed => ~jobs[j].declined
  /\ gErr # NoErr => \E k \in Jobs : ~jobs[k].skipped /\ jobs[k].err = gErr
  /\ (mainpc = "returned" /\ Scheduled /\ ~parentDone
        /\ \A k \in Jobs : jobs[k].skipped \/ jobs[k].err = NoErr) =>
       ret = NoErr

\* one job declined and was skipped, its sibling ran and succeeded, and
\* Process returned nil
C5_Witness ==
  /\ mainpc = "returned"
  /\ ret = NoErr
  /\ \E j, k \in Jobs :
       /\ jobs[j].declined
       /\ jobs[j].skipped
       /\ jobs[k].invoked = 1
       /\ jobs[k].err = NoErr

\* C6: at most one job of a run is inside a confirmation prompt (question
\* written, answer not yet read) at any moment.
C6_PromptsSerialized ==
  /\ Cardinality({j \in Jobs : jobs[j].pc = "prompting"}) <= 1
  /\ \A j \in Jobs : jobs[j].pc = "prompting" <=> promptMu = j

\* with two slots, one job is inside its prompt while the other waits for
\* the prompt mutex
C6_Witness ==
  /\ limit = 2
  /\ \E j, k \in Jobs : jobs[j].pc = "prompting" /\ jobs[k].pc = "lock"

\* the overwrite policy allows target j's destination to be replaced: its
\* option bag or the generic configuration has overwrite: true
PolicyAllows(j) ==
  LET bag == MetaOut(cfg, targets[j], jobs[j].ref)
  IN \/ Has(bag, "overwrite") /\ bag["overwrite"] = BoolV(TRUE)
     \/ Has(cfg.Generic, "overwrite") /\ cfg.Generic["overwrite"] = BoolV(TRUE)

\* job j has made its overwrite check
Checked(j) ==
  /\ jobs[j].held
  /\ jobs[j].pc # "resolve"
  /\ jobs[j].err.kind # "path"

\* C7: a job asks for confirmation iff its destination exists at check time
\* and force is off and watch is off and the policy does not allow the
\* overwrite; so no job prompts under --force or --watch, and no job calls
\* the executor on a destination that existed unless force, watch, the
\* policy or a positive confirmation allowed it.
C7_OverwriteGating ==
  \A j \in Jobs :
    /\ Checked(j) =>
         ((jobs[j].pc = "lock" \/ jobs[j].asked) <=>
            (jobs[j].exists /\ ~opts.Force /\ ~opts.Watch /\ ~PolicyAllows(j)))
    /\ (opts.Force \/ opts.Watch) => ~jobs[j].asked /\ jobs[j].pc # "lock"
    /\ (jobs[j].invoked > 0 /\ jobs[j].exists) =>
         (opts.Force \/ opts.Watch \/ PolicyAllows(j) \/ jobs[j].confirmed)
    /\ ~Checked(j) => ~jobs[j].asked /\ jobs[j].invoked = 0

\* under --watch alone a job ran over an existing destination that the
\* policy does not cover, without asking
C7_Witness ==
  /\ opts.Watch
  /\ ~opts.Force
  /\ \E j \in Jobs :
       /\ jobs[j].exists
       /\ ~PolicyAllows(j)
       /\ ~jobs[j].asked
       /\ jobs[j].invoked = 1

\* `overwrite` is present in map m with the boolean value true
OverwriteTrue(m) == Has(m, "overwrite") /\ m["overwrite"] = BoolV(TRUE)

\* C8: isOverwriteAllowed returns true iff the per-target bag has
\* overwrite == true or the generic configuration has overwrite == true;
\* a per-target false does not veto a global true.
C8_OverwritePolicyIsOr ==
  (call.fn = "isOverwriteAllowed" /\ call.done) =>
    call.result = (OverwriteTrue(call.meta.m) \/ OverwriteTrue(call.generic.m))

\* the per-target bag says false, the generic configuration says true, and
\* the policy answered true
C8_Witness ==
  /\ call.fn = "isOverwriteAllowed"
  /\ call.done
  /\ Has(call.meta.m, "overwrite")
  /\ call.meta.m["overwrite"] = BoolV(FALSE)
  /\ OverwriteTrue(call.generic.m)
  /\ call.result

\* C9: once the run's context is cancelled, a job that holds no semaphore
\* slot never gets one and never calls the executor; when it ends, it ends
\* with the context's error; and Process returns only after all jobs did.
C9_CancelledNeverAcquire ==
  [][/\ \A j \in Jobs :
          (ctxDone /\ ~jobs[j].held) =>
            /\ ~jobs'[j].held
            /\ jobs'[j].invoked = 0
            /\ jobs'[j].pc \in {"idle", "start", "waiting", "report", "done"}
            /\ jobs'[j].pc \in {"report", "done"} => jobs'[j].err = CtxErr
     /\ (Scheduled /\ mainpc' = "returned") =>
          \A j \in Jobs : jobs'[j].pc = "done"]_vars

\* the caller cancelled while a job was queued for a slot; that job ended
\* with the context's error, never having run, and Process returned
C9_Witness ==
  /\ parentDone
  /\ mainpc = "returned"
  /\ \E j \in Jobs :
       /\ ~jobs[j].held
       /\ jobs[j].invoked = 0
       /\ jobs[j].err = CtxErr
       /\ jobs[j].pc = "done"

\* job k may still read or write the map that metaOut of job j points to
SharesBag(j, k) ==
  /\ k # j
  /\ jobs[j].ref # "own"
  /\ targets[k] = targets[j]
  /\ jobs[k].pc \in {"idle", "start", "waiting", "resolve", "lock",
                      "prompting", "build"}

\* job k may still read or write the pass-through argument list
SharesPostArgs(j, k) ==
  /\ k # j
  /\ jobs[k].pc \in {"idle", "start", "waiting", "resolve", "lock",
                      "prompting", "build", "rewrite", "storing"}

\* C10: no job writes to data another job reads or writes: a job's step
\* changes neither the pass-through argument list nor its option bag while
\* another job can still access them.
C10_DataIsolation ==
  [][\A j \in Jobs :
       (mainpc # "begin" /\ jobs'[j] # jobs[j]) =>
         /\ postArgs' # postArgs => ~\E k \in Jobs : SharesPostArgs(j, k)
         /\ cfg' # cfg => ~\E k \in Jobs : SharesBag(j, k)]_vars

\* C11: no two jobs of one run are for the same target string: whatever
\* list DetermineTargets produced, each target string is scheduled at most
\* once.
C11_OneJobPerTarget ==
  \A j, k \in Jobs :
    (/\ jobs[j].pc # "idle"
     /\ jobs[k].pc # "idle"
     /\ targets[j] = targets[k]) => j = k

\* the strings among the elements of a list, as a list in the same order
IsStringsOfInOrder(r, l) ==
  LET at == {i \in 1..Len(l) : l[i].t = "string"}
  IN /\ Len(r) = Cardinality(at)
     /\ \A i \in at : r[Cardinality({k \in at : k <= i})] = l[i].s

\* the elements of the set K, each once, in ascending lexicographic order
IsSortedKeys(r, K) ==
  /\ Len(r) = Cardinality(K)
  /\ {r[i] : i \in 1..Len(r)} = K
  /\ \A i \in 1..(Len(r) - 1) : LessText(Chars(r[i]), Chars(r[i + 1]))

\* C12: DetermineTargets returns a non-empty CLI target list as it is;
\* else, when the outputs list is not empty, the format names (strings) of
\* that list in their order; else, when the output map is not empty, its
\* keys in lexicographic order; else the single target "html".
C12_TargetPrecedence ==
  (call.fn = "DetermineTargets" /\ call.done) =>
    IF Len(call.arg.Targets) > 0
      THEN call.result = call.arg.Targets
    ELSE IF Len(call.arg.Outputs) > 0
      THEN IsStringsOfInOrder(call.result, call.arg.Outputs)
    ELSE IF DOMAIN call.arg.OutputMap # {}
      THEN IsSortedKeys(call.result, DOMAIN call.arg.OutputMap)
    ELSE call.result = <<"html">>

\* no CLI target, no outputs list, an output map with three keys: the
\* targets are its keys, sorted
C12_Witness ==
  /\ call.fn = "DetermineTargets"
  /\ call.done
  /\ call.arg.Targets = <<>>
  /\ call.arg.Outputs = <<>>
  /\ DOMAIN call.arg.OutputMap = {"pdf", "html", "docx"}
  /\ call.result = <<"docx", "html", "pdf">>

\* the option bag an entry of a configuration gives: the entry when it is
\* a map, an empty bag otherwise
BagOf(e) == IF e.t = "map" THEN e.m ELSE EmptyMap

\* the bag of target t by the precedence of the layers: the document's
\* per-target entry, else the document's generic entry, else the default
\* configuration's per-target entry, else its generic entry, else empty
BagByLayers(doc, def, t) ==
  IF Has(doc.OutputMap, t) THEN BagOf(doc.OutputMap[t])
  ELSE IF Has(doc.Generic, t) THEN BagOf(doc.Generic[t])
  ELSE IF Has(def.OutputMap, t) THEN BagOf(def.OutputMap[t])
  ELSE IF Has(def.Generic, t) THEN BagOf(def.Generic[t])
  ELSE EmptyMap

\* every entry the two configurations have for target t is a map
EntriesAreMaps(doc, def, t) ==
  \A m \in {doc.OutputMap, doc.Generic, def.OutputMap, def.Generic} :
    Has(m, t) => m[t].t = "map"

\* C13: the option bag of a job is taken from the highest layer that has an
\* entry for its target, the layers being, highest first: document
\* per-target, document generic, default per-target, default generic (the
\* entries being maps); so a document's generic entry wins over a default
\* configuration's per-target entry.
C13_LayerPrecedence ==
  (/\ call.fn = "resolve"
   /\ call.done
   /\ EntriesAreMaps(call.arg.doc, call.arg.def, call.arg.t)) =>
    call.result.bag = BagByLayers(call.arg.doc, call.arg.def, call.arg.t)

\* C14: the merge of the default configuration keeps the value of every key
\* the document sets (title, filename template, slugify flag, each key of
\* the output map and of the generic map), takes a default's value only
\* for a key the document does not set, and touches nothing else.
C14_AdditiveFill ==
  (call.fn = "merge" /\ call.done) =>
    LET doc == call.arg.doc
        def == call.arg.def
        r == call.result
    IN /\ r.Title = IF doc.Title # <<>> THEN doc.Title ELSE def.Title
       /\ r.FilenameTemplate = IF doc.FilenameTemplate # <<>>
                                 THEN doc.FilenameTemplate
                                 ELSE def.FilenameTemplate
       /\ r.SlugifyFilename = IF doc.SlugifyFilename # NilV
                                THEN doc.SlugifyFilename
                                ELSE def.SlugifyFilename
       /\ \A k \in DOMAIN doc.OutputMap :
            Has(r.OutputMap, k) /\ r.OutputMap[k] = doc.OutputMap[k]
       /\ \A k \in (DOMAIN r.OutputMap) \ (DOMAIN doc.OutputMap) :
            Has(def.OutputMap, k) /\ r.OutputMap[k] = def.OutputMap[k]
       /\ \A k \in DOMAIN doc.Generic :
            Has(r.Generic, k) /\ r.Generic[k] = doc.Generic[k]
       /\ \A k \in (DOMAIN r.Generic) \ (DOMAIN doc.Generic) :
            Has(def.Generic, k) /\ r.Generic[k] = def.Generic[k]
       /\ r.Author = doc.Author
       /\ r.Outputs = doc.Outputs

\* document and default both set the title, the slugify flag and the
\* output-map key html, only the default sets the key pdf: the document's
\* values stay and pdf is filled in
C14_Witness ==
  /\ call.fn = "merge"
  /\ call.done
  /\ call.arg.doc.Title = <<"a">>
  /\ call.arg.def.Title = <<"b">>
  /\ call.arg.doc.SlugifyFilename = BoolV(FALSE)
  /\ call.arg.def.SlugifyFilename = BoolV(TRUE)
  /\ DOMAIN call.arg.doc.OutputMap = {"html"}
  /\ DOMAIN call.arg.def.OutputMap = {"html", "pdf"}
  /\ call.result.Title = <<"a">>
  /\ call.result.OutputMap = ("html" :> StrV("a")) @@ ("pdf" :> StrV("b"))

\* f is the first token of s: the characters of s from the first one that
\* is neither '+' nor '-' up to the next '+' or '-' or the end; empty when
\* s has no such character
IsFirstToken(f, s) ==
  LET names == {i \in 1..Len(s) : s[i] \notin {"+", "-"}}
  IN IF names = {}
       THEN f = <<>>
       ELSE LET from == CHOOSE i \in names : \A k \in names : i <= k
                to == CHOOSE i \in from..Len(s) :
                        /\ \A k \in from..i : k \in names
                        /\ (i = Len(s) \/ (i + 1) \notin names)
            IN f = SubSeq(s, from, to)

\* C15: the format and the option bag of target t under configuration cfg:
\* an output-map entry that is a map with a non-empty string `to` gives
\* format `to` and itself as the bag; a target found only in the generic
\* map gets that entry's map (if it is one) as the bag and the first token
\* of the target string as the format; a target in neither gets an empty
\* bag and the first token of the target string.
C15_FormatResolution ==
  (call.fn = "resolve" /\ call.done) =>
    LET c == call.result.cfg
        t == call.arg.t
    IN /\ (/\ Has(c.OutputMap, t)
           /\ c.OutputMap[t].t = "map"
           /\ Has(c.OutputMap[t].m, "to")
           /\ c.OutputMap[t].m["to"].t = "string"
           /\ c.OutputMap[t].m["to"].s # "") =>
            /\ call.result.fmt = Chars(c.OutputMap[t].m["to"].s)
            /\ call.result.bag = c.OutputMap[t].m
       /\ (~Has(c.OutputMap, t) /\ Has(c.Generic, t)) =>
            /\ call.result.bag = BagOf(c.Generic[t])
            /\ IsFirstToken(call.result.fmt, Chars(t))
       /\ (~Has(c.OutputMap, t) /\ ~Has(c.Generic, t)) =>
            /\ call.result.bag = EmptyMap
            /\ IsFirstToken(call.result.fmt, Chars(t))

\* the target markdown+smart has an output-map entry with to: html5 in the
\* document: the format is html5 and the bag is that entry
C15_Witness ==
  /\ call.fn = "resolve"
  /\ call.done
  /\ call.arg.t = "markdown+smart"
  /\ Has(call.arg.doc.OutputMap, "markdown+smart")
  /\ call.arg.doc.OutputMap["markdown+smart"] = MapV("to" :> StrV("html5"))
  /\ call.result.fmt = <<"h", "t", "m", "l", "5">>
  /\ call.result.bag = ("to" :> StrV("html5"))

\* the name a key is emitted under: its '_' written as '-'
EmittedName(k) == [i \in 1..Len(k) |-> IF k[i] = "_" THEN "-" ELSE k[i]]

\* the long and short flags of the orchestrator, and help
ReservedNames ==
  {"to", "t", "output", "o", "force", "f", "dry-run", "n", "verbose", "v",
   "quiet", "q", "log", "l", "all", "a", "watch", "w", "concurrency", "c",
   "help", "h"}

\* key k of an option bag is never forwarded
IsReserved(k) ==
  \/ k \in {"to", "t", "output", "from"}
  \/ EmittedName(Chars(k)) \in {Chars(x) : x \in ReservedNames}

\* the elements of pandoc_args in their string forms, when it is a list
PandocTail(meta) ==
  IF Has(meta, "pandoc_args") /\ meta["pandoc_args"].t = "list"
    THEN [i \in 1..Len(meta["pandoc_args"].l) |->
            Format(meta["pandoc_args"].l[i])]
    ELSE <<>>

\* the vector args without the elements of pandoc_args at its end
Body(args, meta) == SubSeq(args, 1, Len(args) - Len(PandocTail(meta)))

\* C16: GetArgs emits no flag for a reserved key, whatever its value: not
\* for to, t, output, from, nor for a key whose name (with '_' as '-') is a
\* long or short flag of the orchestrator or help/h; a bag of reserved keys
\* only yields an empty vector.
C16_ReservedNeverForwarded ==
  (call.fn = "GetArgs" /\ call.done) =>
    LET meta == call.arg.meta
        body == Body(call.result.args, meta)
    IN /\ \A k \in DOMAIN meta :
            IsReserved(k) =>
              \A i \in 1..Len(body) :
                body[i] \notin {<<"-", "-">> \o EmittedName(Chars(k)),
                                <<"-">> \o EmittedName(Chars(k)),
                                <<"-", "-">> \o Chars(k),
                                <<"-">> \o Chars(k)}
       /\ (\A k \in DOMAIN meta : IsReserved(k)) => call.result.args = <<>>

\* the bag {force: true, dry_run: true} yields an empty vector
C16_Witness ==
  /\ call.fn = "GetArgs"
  /\ call.done
  /\ call.arg.meta = ("force" :> BoolV(TRUE)) @@ ("dry_run" :> BoolV(TRUE))
  /\ call.result.args = <<>>

\* seg is what the claim lets key k with value v add to the vector
SegmentOf(k, v, seg) ==
  LET n == <<"-", "-">> \o EmittedName(Chars(k))
  IN CASE v.t = "bool" -> seg = (IF v.b THEN <<n>> ELSE <<>>)
       [] v.t = "list" ->
            /\ Len(seg) = 2 * Len(v.l)
            /\ \A i \in 1..Len(v.l) :
                 seg[2 * i - 1] = n /\ seg[2 * i] = Format(v.l[i])
       [] v.t = "map" ->
            \E ord \in MapOrders :
              LET ks == Visit(v.m, ord)
              IN /\ Len(seg) = 2 * Len(ks)
                 /\ \A i \in 1..Len(ks) :
                      /\ seg[2 * i - 1] = n
                      /\ seg[2 * i] =
                           Chars(ks[i]) \o <<"=">> \o Format(v.m[ks[i]])
       [] OTHER -> seg = <<n, Format(v)>>

RECURSIVE SegmentsOf(_, _, _)
\* r is made of one segment per key of the list keys, in that order
SegmentsOf(meta, keys, r) ==
  IF keys = <<>>
    THEN r = <<>>
    ELSE \E i \in 0..Len(r) :
           /\ SegmentOf(Head(keys), meta[Head(keys)], SubSeq(r, 1, i))
           /\ SegmentsOf(meta, Tail(keys), SubSeq(r, i + 1, Len(r)))

C18_Deterministic ==
  (call.fn = "GetArgs" /\ call.done) => call.result.args = call.result.again

\* C19: pandoc_args is taken out of the bag before the other keys are
\* looked at: its elements are the last elements of the vector, as they
\* are and in their order, also when they name a reserved flag, and no
\* flag --pandoc-args or --pandoc_args is emitted.
C19_PandocArgsLast ==
  (call.fn = "GetArgs" /\ call.done /\ Has(call.arg.meta, "pandoc_args")) =>
    LET args == call.result.args
        tail == PandocTail(call.arg.meta)
    IN /\ Len(args) >= Len(tail)
       /\ SubSeq(args, Len(args) - Len(tail) + 1, Len(args)) = tail
       /\ \A i \in 1..Len(tail) :
            call.arg.meta["pandoc_args"].l[i].t = "string" =>
              tail[i] = Chars(call.arg.meta["pandoc_args"].l[i].s)
       /\ \A i \in 1..Len(args) :
            args[i] \notin {<<"-", "-">> \o Chars("pandoc-args"),
                            <<"-", "-">> \o Chars("pandoc_args")}
       /\ ~Has(call.result.left, "pandoc_args")

\* toc: true with pandoc_args: [--force, --toc] yields --toc --force --toc
C19_Witness ==
  /\ call.fn = "GetArgs"
  /\ call.done
  /\ call.arg.meta =
       ("toc" :> BoolV(TRUE))
       @@ ("pandoc_args" :> ListV(<<StrV("--force"), StrV("--toc")>>))
  /\ call.result.args =
       << <<"-", "-", "t", "o", "c">>,
          <<"-", "-", "f", "o", "r", "c", "e">>,
          <<"-", "-", "t", "o", "c">> >>

\* the bag of the call carries a non-empty string under "output"
HasOutputOverride(meta) ==
  /\ Has(meta, "output")
  /\ meta["output"].t = "string"
  /\ meta["output"].s # ""

\* C20: for every title, author, template, format and platform, the name
\* GenerateOutputFilename returns holds neither "/" nor "\" when the option
\* bag has no non-empty output override, with or without the slugify pass;
\* with such an override the name is the override, character for character.
C20_RenderedNamesSanitized ==
  (call.fn = "GenerateOutputFilename" /\ call.done) =>
    IF HasOutputOverride(call.arg.meta)
      THEN call.result = Chars(call.arg.meta["output"].s)
      ELSE \A i \in 1..Len(call.result) : call.result[i] \notin {"/", "\\"}

\* a title, an author and a template that all bring a separator are
\* rendered without an override and without the slugify pass
C20_Witness ==
  /\ call.fn = "GenerateOutputFilename"
  /\ call.done
  /\ ~HasOutputOverride(call.arg.meta)
  /\ ~ShouldSlugify(call.arg.cfg, call.arg.meta)
  /\ call.arg.cfg.Title = <<"a", "/">>
  /\ call.arg.cfg.Author = <<"c", "/">>
  /\ call.arg.cfg.FilenameTemplate =
       Chars("{author}") \o <<"/">> \o Chars("{title}") \o <<".">>
         \o Chars("{ext}")
  /\ call.arg.fmt = Chars("html")
  /\ call.result = <<"c", "_", "_", "a", "_", ".", "h", "t", "m", "l">>

\* the name rendered and sanitized, before the slugify pass
RenderedName(a) ==
  GenerateOutputFilename(a.in, [a.cfg EXCEPT !.SlugifyFilename = NilV],
                         Delete(a.meta, "slugify-filename"), a.fmt, a.env)

\* the pass as documented: the per-target boolean when the bag has one,
\* else the global boolean when the configuration has one, else disabled
PassEnabled(a) ==
  IF Has(a.meta, "slugify-filename") /\ a.meta["slugify-filename"].t = "bool"
    THEN a.meta["slugify-filename"].b
  ELSE IF a.cfg.SlugifyFilename # NilV
    THEN a.cfg.SlugifyFilename.b
  ELSE FALSE

\* the slug of what precedes the last dot of name, then the rest unchanged
SlugBeforeExtension(name) ==
  LET dots == {i \in 1..Len(name) : name[i] = "."}
      d == IF dots = {}
             THEN Len(name) + 1
             ELSE CHOOSE i \in dots : \A k \in dots : k <= i
  IN Slugify(SubSeq(name, 1, d - 1)) \o SubSeq(name, d, Len(name))

\* C21: without an output override, the returned name is the rendered name
\* with the part before the final extension replaced by its slug when the
\* pass is enabled (per-target boolean if present, else global boolean, else
\* disabled), and the rendered name itself when it is not.
C21_SlugifyPassResolution ==
  (/\ call.fn = "GenerateOutputFilename"
   /\ call.done
   /\ ~HasOutputOverride(call.arg.meta)) =>
    call.result = IF PassEnabled(call.arg)
                    THEN SlugBeforeExtension(RenderedName(call.arg))
                    ELSE RenderedName(call.arg)

\* the same with every per-target slugify-filename entry a boolean
C21_BooleanEntries ==
  (/\ call.fn = "GenerateOutputFilename"
   /\ call.done
   /\ ~HasOutputOverride(call.arg.meta)
   /\ Has(call.arg.meta, "slugify-filename") =>
        call.arg.meta["slugify-filename"].t = "bool") =>
    call.result = IF PassEnabled(call.arg)
                    THEN SlugBeforeExtension(RenderedName(call.arg))
                    ELSE RenderedName(call.arg)

C23_ExactlyOnce ==
  /\ \A j \in Jobs : jobs[j].invoked <= 1
  /\ (/\ mainpc = "returned"
      /\ Scheduled
      /\ ~parentDone
      /\ gErr = NoErr
      /\ \A j \in Jobs : ~jobs[j].skipped) =>
       /\ Len(jobs) = Len(targets)
       /\ \A j \in Jobs : jobs[j].invoked = 1
       /\ ret = NoErr

\* a forced run over the two entries of the document's outputs list has
\* returned nil after one executor call for each
C23_Witness ==
  /\ mainpc = "returned"
  /\ opts.Force
  /\ opts.Targets = <<>>
  /\ cfg.Outputs = <<StrV("html"), StrV("pdf")>>
  /\ targets = <<"html", "pdf">>
  /\ \A j \in Jobs : jobs[j].invoked = 1 /\ jobs[j].err = NoErr
  /\ ret = NoErr

\* the flags that would forward the two options the orchestrator reads from
\* a bag for itself
ConsumedFlags ==
  {<<"-", "-">> \o Chars("overwrite"),
   <<"-", "-">> \o Chars("slugify-filename")}

\* C24: the arguments GetArgs made of a job's option bag, which are passed
\* to the executor, hold neither --overwrite nor --slugify-filename,
\* whatever the bag says about overwrite and slugify-filename.
C24_ConsumedOptionsSuppressed ==
  \A j \in Jobs :
    jobs[j].invoked > 0 =>
      \A i \in 1..Len(jobs[j].yaml) : jobs[j].yaml[i] \notin ConsumedFlags

\* what a pass-through argument is when it reaches the executor: itself,
\* or "--to" in place of "-t"
PassedTokens == (PostArgTokens \ {"-t"}) \cup {"--to"}

\* C25: the pass-through arguments every job hands to the executor, after
\* the job's own arguments, are the ones of the command line with each "-t"
\* replaced by "--to": as many as were given, each of them either "--to" or
\* an argument that was not "-t".
C25_PassThroughLayout ==
  \A j \in Jobs :
    jobs[j].invoked > 0 =>
      /\ Len(jobs[j].passed) = Len(postArgs)
      /\ \A i \in 1..Len(jobs[j].passed) : jobs[j].passed[i] \in PassedTokens

\* the same for "-t" alone: no job hands a "-t" to the executor
C25_NoShortFlagPassed ==
  \A j \in Jobs :
    jobs[j].invoked > 0 =>
      \A i \in 1..Len(jobs[j].passed) : jobs[j].passed[i] # "-t"

\* the relevant events seen so far: those still in the channel and those
\* the loop has taken, each of which made one timer
RelevantSeen ==
  Len(watch.timers)
    + Cardinality({i \in DOMAIN watch.queue : Relevant(watch.queue[i])})

\* Process has been called by the timer of relevant event k or of a later one
Followed(k) ==
  \E i \in DOMAIN watch.timers :
    i >= k /\ watch.timers[i].state \in {"running", "finished"}

\* the part of C26 that holds in every state
WatchProtocol ==
  /\ watch.initialRuns <= 1
  /\ watch.pc \in {"initial", "loop"} => watch.initialRuns = 1
  /\ (watch.handled > 0 \/ watch.timers # <<>>) =>
       watch.initialRuns = 1 /\ watch.pc \in {"loop", "returned"}
  /\ \A i \in DOMAIN watch.timers :
       (i < Len(watch.timers) /\ watch.timers[i + 1].early) =>
         watch.timers[i].state = "stopped"
  /\ (watch.pc = "returned" /\ watch.err = "nil") => watch.done
  /\ (watch.failed /\ ~watch.done) => watch.pc \in {"loop", "initial"}

C27_RunsNeverOverlap ==
  /\ ActiveRuns <= 1
  /\ \A i \in DOMAIN watch.timers :
       ~watch.timers[i].overlapped /\ ~watch.timers[i].afterReturn

\* the two halves of C27, one by one
C27_NoOverlap == ActiveRuns <= 1

C27_NoRunAfterReturn ==
  \A i \in DOMAIN watch.timers : ~watch.timers[i].afterReturn

\* the initial run is never overlapped: timers are made in the loop only
C27_InitialRunAlone == watch.pc = "initial" => ActiveRuns = 1

(***************************************************************************)
(* Progress of a run: every step that can be taken is eventually taken, so *)
(* every executor call and every confirmation prompt returns.              *)
(***************************************************************************)
SpecLive == Init /\ [][Next]_vars /\ WF_vars(Next)

\* Process has returned and has left nothing behind: every closure has
\* returned, no slot is held, nobody queues, the prompt mutex is free
ReturnedClean ==
  /\ mainpc = "returned"
  /\ \A j \in Jobs : jobs[j].pc = "done"
  /\ semCur = 0
  /\ semWaiters = <<>>
  /\ semReady = {}
  /\ promptMu = 0

\* C28: for every target list, cap and interleaving, every job eventually
\* reaches a terminal state and Process eventually returns, with every
\* acquired slot released.
C28_Progress == <>ReturnedClean

\* a run that can take no step has returned clean, or was ended by the
\* runtime's fatal error; every step moves some program counter forward, so
\* no run goes on for ever
C28_NeverStuck ==
  (~ENABLED Next) => (ReturnedClean \/ mainpc = "crashed")

\* C29: the jobs of one run resolve to output paths that differ from one
\* another, whatever the target list and the configuration, with or
\* without the global --output override.
C29_OutputPathsDiffer ==
  (call.fn = "OutputFile" /\ call.done) =>
    \A i, j \in DOMAIN call.result :
      i # j => call.result[i] # call.result[j]

\* C30: DetermineTargets returns at least one target for every combination
\* of CLI targets, outputs list and output map, an outputs list without a
\* string element included.
C30_TargetsNeverEmpty ==
  (call.fn = "DetermineTargets" /\ call.done) => call.result # <<>>

\* the same when the outputs list is empty or has a string element
C30_NonEmptyWithStringOutputs ==
  (/\ call.fn = "DetermineTargets"
   /\ call.done
   /\ (call.arg.Outputs = <<>> \/ StringsOf(call.arg.Outputs) # <<>>)) =>
    call.result # <<>>

=============================================================================
